---------------------------- MODULE Spec2Model ----------------------------
(***************************************************************************)
(* A model of the bundle build pipeline of airgapped-rpm-repo-lite:        *)
(*   - manifest_tools/merger.py     ManifestMerger                         *)
(*   - bundle_builder/resolver.py   DependencyResolver                     *)
(*   - bundle_builder/downloader.py RPMDownloader                          *)
(*   - bundle_builder/builder.py    BundleBuilder                          *)
(*   - manifest_tools/validator.py  ManifestValidator                      *)
(* Each component has its own specification over the shared variables:     *)
(*   Spec           the merger, driven by add_manifest and                 *)
(*                  add_manifests_from_directory calls;                    *)
(*   ResolverSpec   one resolve() run against a nondeterministic dnf;      *)
(*   FallbackSpec   the breadth-first fallback of resolve() alone, under   *)
(*                  weak fairness, for its termination;                    *)
(*   DownloaderSpec download_packages and generate_checksums_file calls    *)
(*                  on one RPMDownloader;                                  *)
(*   BuilderSpec    one build() run, one pipeline step per action, the     *)
(*                  file system and the external tools nondeterministic;   *)
(*   ValidatorSpec  validate and validate_file calls on one                *)
(*                  ManifestValidator;                                     *)
(*   HostSpec       two build() runs that share work_dir and output_dir,   *)
(*                  their steps interleaved;                               *)
(*   BuildResolveSpec  resolve() as step 3 of build() runs it, and what    *)
(*                  build() does with the list it returns;                 *)
(*   MetadataSpec   the download of a resolved list and the metadata       *)
(*                  build() derives from it.                               *)
(***************************************************************************)
EXTENDS Integers, Sequences, FiniteSets, TLC

VARIABLES
    \* ManifestMerger
    os_major,          \* self.os_major
    manifests,         \* self.manifests
    manifest_hashes,   \* self.manifest_hashes
    call,              \* the last merger call: what was asked, what came back
    \* DependencyResolver
    pc,                \* position inside resolve()
    installed_packages,\* self.installed_packages
    prefer_security,   \* self.prefer_security
    updates,           \* resolve(): updates
    security_updates,  \* resolve(): security_updates
    all_packages,      \* resolve(): all_packages / the closure under construction
    strategy,          \* which closure strategy produced all_packages
    processed,         \* _resolve_via_repoquery: processed
    to_process,        \* _resolve_via_repoquery: to_process
    resolved,          \* self.resolved
    errors,            \* self.errors
    queries,           \* external dnf invocations issued so far, by kind
    \* RPMDownloader
    download_dir,      \* the files of self.download_dir, in glob order
    results,           \* self.results
    checksums_file,    \* what generate_checksums_file wrote
    dl_call,           \* the last download_packages call and how it ended
    \* BundleBuilder
    bpc,               \* position inside build()
    bundle_work_dir,   \* what exists of work_dir/<bundle_id>
    output_dir,        \* the archive files of self.output_dir
    build_log,         \* self.build_log
    build_log_file,    \* what was written to work_dir/<bundle_id>/build.log
    ran,               \* the pipeline components and tools invoked so far
    build_result,      \* how build() ended
    \* ManifestValidator
    validator_errors,  \* self.errors
    validator_warnings,\* self.warnings
    validate_call,     \* the last validate call: its argument and outcome
    \* concurrent BundleBuilder invocations on one host
    builds,            \* per invocation: os_major, bundle_id, position in build()
    host_fs,           \* the entries of the shared work_dir and output_dir
    touched,           \* who created, wrote or deleted which entry
    \* BundleBuilder, step 7
    metadata           \* self.metadata

mergerVars == <<os_major, manifests, manifest_hashes, call>>

resolverVars ==
    <<pc, installed_packages, prefer_security, updates, security_updates,
      all_packages, strategy, processed, to_process, resolved, errors, queries>>

downloaderVars == <<download_dir, results, checksums_file, dl_call>>

builderVars ==
    <<bpc, bundle_work_dir, output_dir, build_log, build_log_file, ran,
      build_result>>

validatorVars == <<validator_errors, validator_warnings, validate_call>>

hostVars == <<builds, host_fs, touched>>

metadataVars == <<metadata>>

vars ==
    <<mergerVars, resolverVars, downloaderVars, builderVars, validatorVars,
      hostVars, metadataVars>>

\* what each component leaves alone
othersOfMerger ==
    <<resolverVars, downloaderVars, builderVars, validatorVars, hostVars,
      metadataVars>>
othersOfResolver ==
    <<mergerVars, downloaderVars, builderVars, validatorVars, hostVars,
      metadataVars>>
othersOfDownloader ==
    <<mergerVars, resolverVars, builderVars, validatorVars, hostVars,
      metadataVars>>
othersOfBuilder ==
    <<mergerVars, resolverVars, downloaderVars, validatorVars, hostVars,
      metadataVars>>
othersOfValidator ==
    <<mergerVars, resolverVars, downloaderVars, builderVars, hostVars,
      metadataVars>>
othersOfHost ==
    <<mergerVars, resolverVars, downloaderVars, builderVars, validatorVars,
      metadataVars>>
othersOfMetadata ==
    <<mergerVars, resolverVars, builderVars, validatorVars, hostVars>>

---------------------------------------------------------------------------
(* Bounds of the model.                                                    *)

\* most manifests the accepted list is let to grow to
MaxManifests == 3

\* most files in one ingested directory
MaxDirFiles == 2

---------------------------------------------------------------------------
(* Generic helpers.                                                        *)

Range(s) == {s[i] : i \in DOMAIN s}

RECURSIVE SelectSeqBy(_, _)
\* the subsequence of s whose elements satisfy Test (Test is a set)
SelectSeqBy(s, Keep) ==
    IF s = <<>> THEN <<>>
    ELSE IF Head(s) \in Keep THEN <<Head(s)>> \o SelectSeqBy(Tail(s), Keep)
         ELSE SelectSeqBy(Tail(s), Keep)

---------------------------------------------------------------------------
(* Files and manifests.  A file name is the sequence of its tokens, so     *)
(* that glob patterns and substring tests are computed, not assumed.       *)

FileNames ==
    { <<"h1", "-manifest", ".json">>,          \* h1-manifest.json
      <<"h2", ".json">>,                       \* h2.json
      <<"h3", "-manifest", "-old", ".json">>,  \* h3-manifest-old.json
      <<"notes", ".txt">> }                    \* notes.txt

Rpm(n, v) == [name |-> n, nevra |-> v]

\* a JSON object; has_* say whether the key is present
Obj(hasHost, host, osKind, hasMajor, major, minor, rpms) ==
    [kind |-> "object", has_host_id |-> hasHost, host_id |-> host,
     os_kind |-> osKind, has_major |-> hasMajor, major |-> major,
     minor |-> minor, installed_rpms |-> rpms]

\* file contents that are not a JSON object
NonObj(k) ==
    [kind |-> k, has_host_id |-> FALSE, host_id |-> <<>>,
     os_kind |-> "absent", has_major |-> FALSE, major |-> 0,
     minor |-> 0, installed_rpms |-> <<>>]

InvalidJson == NonObj("invalid_json")   \* json.load raises JSONDecodeError
JsonList    == NonObj("json_list")      \* valid JSON, but not an object

M9a == Obj(TRUE, <<"test-host-01">>, "dict", TRUE, 9, 6,
           << Rpm("bash", "bash-5.1.8-6.el9.x86_64"),
              Rpm("openssl", "openssl-1:3.0.7-25.el9.x86_64") >>)
\* same host as M9a, later snapshot; one entry lacks its name
M9b == Obj(TRUE, <<"test-host-01">>, "dict", TRUE, 9, 4,
           << Rpm("bash", "bash-5.1.8-9.el9.x86_64"),
              Rpm("", "kernel-5.14.0-427.el9.x86_64") >>)
\* no host_id key
M9c == Obj(FALSE, <<>>, "dict", TRUE, 9, 2,
           << Rpm("kernel", "kernel-5.14.0-427.el9.x86_64") >>)
M8  == Obj(TRUE, <<"test-host-rhel8">>, "dict", TRUE, 8, 10,
           << Rpm("bash", "bash-4.4.20-4.el8.x86_64") >>)
\* "os" key absent
MNoOs == Obj(TRUE, <<"h-no-os">>, "absent", FALSE, 0, 0, <<>>)
\* "os": {} without "major"
MNoMajor == Obj(TRUE, <<"h-no-major">>, "dict", FALSE, 0, 3, <<>>)
\* "os": null, or a string
MOsNotDict == Obj(TRUE, <<"h-os-null">>, "not_dict", FALSE, 0, 0, <<>>)

Contents == {InvalidJson, JsonList, M9a, M9b, M9c, M8, MNoOs, MNoMajor, MOsNotDict}

Files == [name : FileNames, content : Contents]

\* the contents of the files of an ingested directory: unparsable, not an
\* object, RHEL 9 with and without host_id, RHEL 8
DirContents == {InvalidJson, JsonList, M9a, M9c, M8}

DirFiles == [name : FileNames, content : DirContents]

\* a directory of n files as os.scandir lists it: files of distinct names,
\* in any order
DirListings(n) ==
    {ord \in [1..n -> DirFiles] : \A i, j \in 1..n : i # j => ord[i].name # ord[j].name}

\* Path.stem: the name without its last suffix
Stem(name) == SubSeq(name, 1, Len(name) - 1)

\* directory.glob("*-manifest.json")
GlobManifestJson(name) ==
    /\ Len(name) >= 2
    /\ name[Len(name)] = ".json"
    /\ name[Len(name) - 1] = "-manifest"

\* directory.glob("*.json")
GlobJson(name) == Len(name) >= 1 /\ name[Len(name)] = ".json"

\* "-manifest" in manifest_file.name
ContainsManifest(name) == \E i \in DOMAIN name : name[i] = "-manifest"

---------------------------------------------------------------------------
(* ManifestMerger                                                          *)

\* hashlib.sha256(json.dumps(manifest, sort_keys=True)): equal exactly for
\* equal manifests, so the digest is modelled by the content it identifies
ManifestHash(m) == <<"sha256", m>>

NoHash == <<>>    \* manifest_hashes.get(host_id, "")

\* manifest.get("host_id", default)
GetHostId(m, default) == IF m.has_host_id THEN m.host_id ELSE default

\* dict.get on the hash map
HashOf(hs, h) == IF h \in DOMAIN hs THEN hs[h] ELSE NoHash

\* hs with hs[h] = v
Put(hs, h, v) == [k \in DOMAIN hs \cup {h} |-> IF k = h THEN v ELSE hs[k]]

\* add_manifest without the OS major comparison
AddManifestNoOsCheck(T, ms, hs, f) ==
    LET m == f.content IN
    IF m.kind = "invalid_json"
      THEN [outcome |-> "JSONDecodeError", ms |-> ms, hs |-> hs]
    ELSE IF m.kind # "object" \/ m.os_kind = "not_dict"
      THEN [outcome |-> "AttributeError", ms |-> ms, hs |-> hs]
    ELSE [outcome |-> "True",
          ms |-> Append(ms, m),
          hs |-> Put(hs, GetHostId(m, Stem(f.name)), ManifestHash(m))]

\* add_manifest(path) from merger state (ms, hs): what it returns or raises
\* and the state it leaves
AddManifest(T, ms, hs, f) ==
    LET m == f.content IN
    IF m.kind = "invalid_json"
      THEN [outcome |-> "JSONDecodeError", ms |-> ms, hs |-> hs]
    ELSE IF m.kind # "object" \/ m.os_kind = "not_dict"
      THEN [outcome |-> "AttributeError", ms |-> ms, hs |-> hs]
    ELSE IF ~(m.os_kind = "dict" /\ m.has_major /\ m.major = T)
      THEN [outcome |-> "False", ms |-> ms, hs |-> hs]
    ELSE [outcome |-> "True",
          ms |-> Append(ms, m),
          hs |-> Put(hs, GetHostId(m, Stem(f.name)), ManifestHash(m))]

Exceptions == {"JSONDecodeError", "AttributeError"}

\* what the second loop's except clause catches
Caught == {"JSONDecodeError", "KeyError"}

RECURSIVE Ingest(_, _, _, _)
\* one for-loop of add_manifests_from_directory over the files fs, from the
\* running state st; guarded says whether the body sits in the try block
Ingest(T, st, fs, guarded) ==
    IF fs = <<>> \/ st.outcome # "returned" THEN st
    ELSE LET r == AddManifest(T, st.ms, st.hs, Head(fs)) IN
         IF r.outcome \in Exceptions
           THEN IF guarded /\ r.outcome \in Caught
                  THEN Ingest(T, st, Tail(fs), guarded)
                  ELSE [st EXCEPT !.outcome = r.outcome]
           ELSE Ingest(T,
                       [outcome |-> "returned", ms |-> r.ms, hs |-> r.hs,
                        count |-> IF r.outcome = "True" THEN st.count + 1
                                  ELSE st.count],
                       Tail(fs), guarded)

\* add_manifests_from_directory over directory d listed in order ord
AddManifestsFromDirectory(T, ms, hs, ord) ==
    LET first  == SelectSeqBy(ord, {f \in Range(ord) : GlobManifestJson(f.name)})
        second == SelectSeqBy(ord, {f \in Range(ord) :
                                      /\ GlobJson(f.name)
                                      /\ ~ContainsManifest(f.name)})
        st0    == [outcome |-> "returned", ms |-> ms, hs |-> hs, count |-> 0]
    IN  Ingest(T, Ingest(T, st0, first, FALSE), second, TRUE)

\* a file that holds a manifest of OS major T
HoldsTarget(T, f) ==
    /\ f.content.kind = "object"
    /\ f.content.os_kind = "dict"
    /\ f.content.has_major
    /\ f.content.major = T

RECURSIVE NevrasOf(_, _)
\* the NEVRAs the rpm list rs records for package name n
NevrasOf(rs, n) ==
    IF rs = <<>> THEN {}
    ELSE (IF Head(rs).name = n /\ Head(rs).nevra # "" THEN {Head(rs).nevra} ELSE {})
         \cup NevrasOf(Tail(rs), n)

RECURSIVE NevraListOf(_, _)
NevraListOf(rs, n) ==
    IF rs = <<>> THEN <<>>
    ELSE (IF Head(rs).name = n /\ Head(rs).nevra # "" THEN <<Head(rs).nevra>> ELSE <<>>)
         \o NevraListOf(Tail(rs), n)

RECURSIVE AllRpms(_)
\* the installed_rpms of all manifests, in order
AllRpms(ms) == IF ms = <<>> THEN <<>> ELSE Head(ms).installed_rpms \o AllRpms(Tail(ms))

\* a merge that appends to a list per name instead of adding to a set
MergedAsLists(ms) ==
    LET rs == AllRpms(ms)
        names == {rs[i].name : i \in {j \in DOMAIN rs : rs[j].name # "" /\ rs[j].nevra # ""}}
    IN  [n \in names |-> NevraListOf(rs, n)]

\* get_merged_installed_rpms(): package name -> set of NEVRAs seen
get_merged_installed_rpms(ms) ==
    LET rs == AllRpms(ms)
        names == {rs[i].name : i \in {j \in DOMAIN rs : rs[j].name # "" /\ rs[j].nevra # ""}}
    IN  [n \in names |-> NevrasOf(rs, n)]

\* get_host_summary(): one row per accepted manifest
get_host_summary(ms, hs) ==
    [i \in DOMAIN ms |->
        LET host_id == GetHostId(ms[i], <<"unknown">>) IN
        [host_id |-> host_id,
         manifest_hash |-> HashOf(hs, host_id),
         os_minor |-> ms[i].minor,
         installed_count |-> Len(ms[i].installed_rpms)]]

NoCall ==
    [op |-> "none", outcome |-> "none", count |-> 0, before |-> 0,
     content |-> InvalidJson,
     n_target |-> 0, n_offered |-> 0]

\* merger.add_manifest(f)
add_manifest(f) ==
    LET r == AddManifest(os_major, manifests, manifest_hashes, f) IN
    /\ Len(manifests) < MaxManifests
    /\ manifests' = r.ms
    /\ manifest_hashes' = r.hs
    /\ call' = [NoCall EXCEPT !.op = "add_manifest", !.outcome = r.outcome,
                              !.before = Len(manifests), !.content = f.content]
    /\ UNCHANGED os_major

\* merger.add_manifests_from_directory(d), the directory d listed as ord
add_manifests_from_directory(ord) ==
    LET r == AddManifestsFromDirectory(os_major, manifests, manifest_hashes, ord)
        d == Range(ord)
        json == {f \in d : GlobJson(f.name)}
    IN
    /\ manifests' = r.ms
    /\ manifest_hashes' = r.hs
    /\ call' = [NoCall EXCEPT
                  !.op = "add_manifests_from_directory",
                  !.outcome = r.outcome,
                  !.count = r.count,
                  !.before = Len(manifests),
                  !.n_target = Cardinality({f \in json : HoldsTarget(os_major, f)}),
                  !.n_offered = Cardinality({f \in json :
                                    /\ HoldsTarget(os_major, f)
                                    /\ \/ GlobManifestJson(f.name)
                                       \/ ~ContainsManifest(f.name)})]
    /\ UNCHANGED os_major

---------------------------------------------------------------------------
(* DependencyResolver: packages and the replies of the external dnf.       *)

\* a package name as its dash-separated tokens: bash, openssl, openssl-libs
Names == { <<"bash">>, <<"openssl">>, <<"openssl", "libs">> }

\* a package build as the repositories know it; it stands for its NEVRA
Pkgs == [name : Names, arch : {"x86_64"}]

\* the installed-name lists a resolver is constructed with
InstalledChoices == { {<<"bash">>}, Names }

\* most lines in the transcript of the closure simulation (stdout and
\* stderr together)
MaxLines == 3

\* most lines in the reply to one repoquery for direct requirements
MaxDepLines == 1

SeqsUpTo(S, n) == UNION {[1..k -> S] : k \in 0..n}

\* a line of output; pkg matters for kind "pkg" only
Line(k, p) == [kind |-> k, pkg |-> p]

AnyPkg == CHOOSE p \in Pkgs : TRUE

\* lines of the "dnf download --resolve --assumeno -v" transcript:
\*   header      contains "Installing:" or "Upgrading:"
\*   dep_header  "Installing dependencies:"
\*   junk        any other text _parse_package_line gives up on
\*   pkg         "<nevra>  <repo>  <size>"
TranscriptLines ==
    {Line("header", AnyPkg), Line("dep_header", AnyPkg), Line("junk", AnyPkg)}
    \cup {Line("pkg", p) : p \in Pkgs}

\* lines of a version-info reply: a full 7-field line, or one with fewer
\* fields
InfoLines == {Line("short", AnyPkg)} \cup {Line("pkg", p) : p \in Pkgs}

\* replies to "dnf repoquery --latest-limit=1 <name>": no line, or one
InfoReplies == {<<>>} \cup {<<l>> : l \in InfoLines}

\* lines of a requirements reply: a package name, or a blank line
BlankName == <<>>
DepLines == Names \cup {BlankName}

NoQueries ==
    [check_update |-> 0, updateinfo |-> 0, download |-> 0,
     info |-> [n \in Names |-> 0], requires |-> [n \in Names |-> 0]]

\* ResolvedPackage, as far as the resolver's logic reads it
ResolvedPackage(n, v, t) == [name |-> n, nevra |-> v, package_type |-> t]

\* pkg_with_arch.rsplit(".", 1)[0] on "name.arch"
StripArch(p) == p.name

\* pkg_name.split("-")[0] if "-" in pkg_name else pkg_name: an advisory line
\* names the build "name-version-release.arch", so a dash is always there
\* and only the first token of the name is kept
FirstDashToken(n) == <<Head(n)>>

\* an update check that reads the listing whatever the exit status
UpdatesWhateverExit(installed, rc, reported) ==
    {StripArch(p) : p \in reported} \cap installed

\* _get_available_updates on a check-update run that exited rc and listed
\* the builds in reported
GetAvailableUpdates(installed, rc, reported) ==
    IF rc \notin {0, 100} THEN {}
    ELSE {StripArch(p) : p \in reported} \cap installed

\* _get_security_updates on an updateinfo run
GetSecurityUpdates(outcome, advisories) ==
    IF outcome = "ok" THEN {FirstDashToken(StripArch(p)) : p \in advisories}
    ELSE {}

\* _parse_package_line: the NEVRA splits into name, version, release, arch
ParsePackageLine(l) ==
    IF l.kind = "pkg" THEN <<ResolvedPackage(l.pkg.name, l.pkg, "update")>>
    ELSE <<>>

RECURSIVE ParseTranscript(_, _)
\* the parsing loop of _resolve_dependencies over the transcript lines
ParseTranscript(lines, in_package_list) ==
    IF lines = <<>> THEN <<>>
    ELSE LET l == Head(lines) IN
         IF l.kind = "header" THEN ParseTranscript(Tail(lines), TRUE)
         ELSE IF in_package_list /\ l.kind = "dep_header"
                THEN ParseTranscript(Tail(lines), in_package_list)
         ELSE IF in_package_list
                THEN ParsePackageLine(l) \o ParseTranscript(Tail(lines), in_package_list)
         ELSE ParseTranscript(Tail(lines), in_package_list)

\* a classification that tests the update set before the security set
ClassifyUpdateFirst(name, security, upd, provisional) ==
    IF name \in upd THEN "update"
    ELSE IF name \in security THEN "security"
    ELSE "dependency"

\* a classification that only promotes to security and otherwise keeps
\* the type the closure strategy set
ClassifyKeepProvisional(name, security, upd, provisional) ==
    IF name \in security THEN "security" ELSE provisional

\* a classification without the final else branch
ClassifyUpdateByDefault(name, security, upd, provisional) ==
    IF name \in security THEN "security" ELSE "update"

\* step 4 of resolve(): the type of one package of the closure
Classify(name, security, upd, provisional) ==
    IF name \in security THEN "security"
    ELSE IF name \in upd THEN "update"
    ELSE "dependency"

\* step 4 of resolve() over the whole closure
ClassifyAll(pkgs, security, upd) ==
    [i \in DOMAIN pkgs |->
        [pkgs[i] EXCEPT !.package_type =
            Classify(pkgs[i].name, security, upd, pkgs[i].package_type)]]

\* a resolve() that goes on after an empty update set
NeverReturnEarly(upd) == FALSE

\* "if not updates: return []"
ReturnEarly(upd) == upd = {}

\* a fallback that does not look at the processed set when it pops
NeverProcessed(n, proc) == FALSE

\* "if pkg_name in processed: continue"
AlreadyProcessed(n, proc) == n \in proc

RECURSIVE AppendInfo(_, _, _)
\* the loop over the version-info lines: skip short lines and NEVRAs
\* already resolved, append the rest
AppendInfo(res, lines, packages) ==
    IF lines = <<>> THEN res
    ELSE LET l == Head(lines) IN
         IF l.kind # "pkg" \/ \E i \in DOMAIN res : res[i].nevra = l.pkg
           THEN AppendInfo(res, Tail(lines), packages)
           ELSE AppendInfo(
                  Append(res, ResolvedPackage(l.pkg.name, l.pkg,
                            IF l.pkg.name \in packages THEN "update" ELSE "dependency")),
                  Tail(lines), packages)

RECURSIVE Enqueue(_, _, _)
\* the loop over the requirement lines: enqueue names not yet processed
Enqueue(queue, deps, proc) ==
    IF deps = <<>> THEN queue
    ELSE IF Head(deps) # BlankName /\ Head(deps) \notin proc
           THEN Enqueue(Append(queue, Head(deps)), Tail(deps), proc)
           ELSE Enqueue(queue, Tail(deps), proc)

\* list(packages): the names of a set in some order
ListsOf(S) ==
    {q \in [1..Cardinality(S) -> S] : \A i, j \in DOMAIN q : i # j => q[i] # q[j]}

Bump(q, kind) == [q EXCEPT ![kind] = @ + 1]

BumpName(q, kind, n) == [q EXCEPT ![kind][n] = @ + 1]

\* the content of a file: <<>> while it was never written, <<text>> after
NoFile == <<>>

NoDownload == [op |-> "none", packages |-> <<>>, fetches |-> 0, outcome |-> "none"]

\* the downloader's state while another component runs
DownloaderIdle ==
    /\ download_dir = <<>>
    /\ results = <<>>
    /\ checksums_file = NoFile
    /\ dl_call = NoDownload

\* build() has not ended
NoResult == [kind |-> "none", archive |-> "", exit |-> -1]

\* the builder's state while another component runs
BuilderIdle ==
    /\ bpc = "idle"
    /\ bundle_work_dir = {}
    /\ output_dir = {}
    /\ build_log = <<>>
    /\ build_log_file = NoFile
    /\ ran = {}
    /\ build_result = NoResult

NoValidation == [op |-> "none", file |-> "none", manifest |-> <<>>, outcome |-> "none"]

\* the validator's state while another component runs
ValidatorIdle ==
    /\ validator_errors = <<>>
    /\ validator_warnings = <<>>
    /\ validate_call = NoValidation

\* self.metadata = {}
NoMetadata == <<>>

\* the builder has not built its metadata
MetadataIdle == metadata = NoMetadata

\* no BundleBuilder process runs on the host
HostIdle ==
    /\ builds = <<>>
    /\ host_fs = {}
    /\ touched = {}

\* the resolver's state while the merger runs
ResolverIdle ==
    /\ pc = "idle"
    /\ installed_packages = {}
    /\ prefer_security = TRUE
    /\ updates = {}
    /\ security_updates = {}
    /\ all_packages = <<>>
    /\ strategy = "none"
    /\ processed = {}
    /\ to_process = <<>>
    /\ resolved = <<>>
    /\ errors = <<>>
    /\ queries = NoQueries

\* ManifestMerger(os_major): only 8 and 9 construct
Init ==
    /\ os_major \in {8, 9}
    /\ manifests = <<>>
    /\ manifest_hashes = <<>>
    /\ call = NoCall
    /\ ResolverIdle
    /\ DownloaderIdle
    /\ BuilderIdle
    /\ ValidatorIdle
    /\ HostIdle
    /\ MetadataIdle

Next ==
    \/ \E f \in Files : add_manifest(f) /\ UNCHANGED othersOfMerger
    \/ \E n \in 0..MaxDirFiles :
          /\ Len(manifests) + n <= MaxManifests
          /\ \E ord \in DirListings(n) :
                add_manifests_from_directory(ord) /\ UNCHANGED othersOfMerger

Spec == Init /\ [][Next]_vars

---------------------------------------------------------------------------
(* DependencyResolver.resolve(), one external call per step.               *)

MergerIdle ==
    /\ os_major = 9
    /\ manifests = <<>>
    /\ manifest_hashes = <<>>
    /\ call = NoCall

\* DependencyResolver(installed_packages, prefer_security), resolve() entered
ResolverInit ==
    /\ MergerIdle
    /\ DownloaderIdle
    /\ BuilderIdle
    /\ ValidatorIdle
    /\ HostIdle
    /\ MetadataIdle
    /\ pc = "resolve"
    /\ installed_packages \in InstalledChoices
    /\ prefer_security \in BOOLEAN
    /\ updates = {}
    /\ security_updates = {}
    /\ all_packages = <<>>
    /\ strategy = "none"
    /\ processed = {}
    /\ to_process = <<>>
    /\ resolved = <<>>
    /\ errors = <<>>
    /\ queries = NoQueries

\* step 1: reset, run "dnf check-update", return [] when nothing is to update
CheckUpdate(rc, reported) ==
    LET upd == GetAvailableUpdates(installed_packages, rc, reported) IN
    /\ pc = "resolve"
    /\ resolved' = <<>>
    /\ errors' = IF rc \notin {0, 100} THEN <<"dnf check-update failed">> ELSE <<>>
    /\ queries' = Bump(queries, "check_update")
    /\ updates' = upd
    /\ pc' = IF ReturnEarly(upd) THEN "done"
             ELSE IF prefer_security THEN "security" ELSE "closure"
    /\ UNCHANGED <<installed_packages, prefer_security, security_updates,
                   all_packages, strategy, processed, to_process>>

\* step 2: run "dnf updateinfo list --security --available"
SecurityQuery(outcome, advisories) ==
    /\ pc = "security"
    /\ queries' = Bump(queries, "updateinfo")
    /\ security_updates' = GetSecurityUpdates(outcome, advisories)
    /\ errors' = IF outcome = "timeout"
                   THEN Append(errors, "Failed to get security updates")
                   ELSE errors
    /\ pc' = "closure"
    /\ UNCHANGED <<installed_packages, prefer_security, updates, all_packages,
                   strategy, processed, to_process, resolved>>

\* a closure step that enters the fallback whatever the transcript gave
ClosureThenFallback(out, err) ==
    /\ pc = "closure"
    /\ updates # {}
    /\ queries' = Bump(queries, "download")
    /\ all_packages' = ParseTranscript(out \o err, FALSE)
    /\ strategy' = IF all_packages' # <<>> THEN "transcript" ELSE "repoquery"
    /\ pc' = "bfs"
    /\ processed' = {}
    /\ to_process' \in ListsOf(updates)
    /\ UNCHANGED <<installed_packages, prefer_security, updates,
                   security_updates, resolved, errors>>

\* step 3, primary strategy: run the closure simulation and parse stdout
\* followed by stderr; with nothing parsed, enter the fallback
ClosureSimulation(out, err) ==
    LET parsed == ParseTranscript(out \o err, FALSE) IN
    /\ pc = "closure"
    /\ IF updates = {}
         THEN \* "if not update_packages: return resolved": nothing is run
              /\ all_packages' = <<>>
              /\ pc' = "classify"
              /\ UNCHANGED <<strategy, processed, to_process, queries>>
         ELSE /\ queries' = Bump(queries, "download")
              /\ IF parsed # <<>>
                   THEN /\ all_packages' = parsed
                        /\ strategy' = "transcript"
                        /\ pc' = "classify"
                        /\ UNCHANGED <<processed, to_process>>
                   ELSE /\ all_packages' = <<>>
                        /\ strategy' = "repoquery"
                        /\ pc' = "bfs"
                        /\ processed' = {}
                        /\ to_process' \in ListsOf(updates)
    /\ UNCHANGED <<installed_packages, prefer_security, updates,
                   security_updates, resolved, errors>>

\* fallback loop: the popped name was processed before
BfsSkip ==
    /\ pc = "bfs"
    /\ to_process # <<>>
    /\ AlreadyProcessed(Head(to_process), processed)
    /\ to_process' = Tail(to_process)
    /\ UNCHANGED <<pc, installed_packages, prefer_security, updates,
                   security_updates, all_packages, strategy, processed,
                   resolved, errors, queries>>

\* fallback loop: the version-info query fails (check=True raises), the
\* requirements query is not made
BfsInfoFails ==
    LET n == Head(to_process) IN
    /\ pc = "bfs"
    /\ to_process # <<>>
    /\ ~AlreadyProcessed(n, processed)
    /\ processed' = processed \cup {n}
    /\ queries' = BumpName(queries, "info", n)
    /\ to_process' = Tail(to_process)
    /\ UNCHANGED <<pc, installed_packages, prefer_security, updates,
                   security_updates, all_packages, strategy, resolved, errors>>

\* fallback loop: version info, then direct requirements of the popped name
BfsQuery(info, deps) ==
    LET n == Head(to_process) IN
    /\ pc = "bfs"
    /\ to_process # <<>>
    /\ ~AlreadyProcessed(n, processed)
    /\ processed' = processed \cup {n}
    /\ queries' = BumpName(BumpName(queries, "info", n), "requires", n)
    /\ all_packages' = AppendInfo(all_packages, info, updates)
    /\ to_process' = Enqueue(Tail(to_process), deps, processed \cup {n})
    /\ UNCHANGED <<pc, installed_packages, prefer_security, updates,
                   security_updates, strategy, resolved, errors>>

\* fallback loop: the queue is empty
BfsDone ==
    /\ pc = "bfs"
    /\ to_process = <<>>
    /\ pc' = "classify"
    /\ UNCHANGED <<installed_packages, prefer_security, updates,
                   security_updates, all_packages, strategy, processed,
                   to_process, resolved, errors, queries>>

\* step 4: classify the closure and return it
ClassifyStep ==
    /\ pc = "classify"
    /\ resolved' = ClassifyAll(all_packages, security_updates, updates)
    /\ pc' = "done"
    /\ UNCHANGED <<installed_packages, prefer_security, updates,
                   security_updates, all_packages, strategy, processed,
                   to_process, errors, queries>>

ResolverNext ==
    \/ \E rc \in {0, 100, 1} : \E reported \in SUBSET Pkgs :
          CheckUpdate(rc, reported) /\ UNCHANGED othersOfResolver
    \/ \E outcome \in {"ok", "nonzero", "timeout"} : \E advisories \in SUBSET Pkgs :
          SecurityQuery(outcome, advisories) /\ UNCHANGED othersOfResolver
    \/ \E out \in SeqsUpTo(TranscriptLines, MaxLines) :
          \E err \in SeqsUpTo(TranscriptLines, MaxLines - Len(out)) :
             ClosureSimulation(out, err) /\ UNCHANGED othersOfResolver
    \/ BfsSkip /\ UNCHANGED othersOfResolver
    \/ BfsInfoFails /\ UNCHANGED othersOfResolver
    \/ \E info \in InfoReplies :
          \E deps \in SeqsUpTo(DepLines, MaxDepLines) :
             BfsQuery(info, deps) /\ UNCHANGED othersOfResolver
    \/ BfsDone /\ UNCHANGED othersOfResolver
    \/ ClassifyStep /\ UNCHANGED othersOfResolver

ResolverSpec == ResolverInit /\ [][ResolverNext]_vars

\* _resolve_via_repoquery(packages) entered: the state resolve() is in when
\* the closure simulation of a resolver without security preference, with
\* every name installed, parsed to nothing
FallbackInit ==
    /\ MergerIdle
    /\ DownloaderIdle
    /\ BuilderIdle
    /\ ValidatorIdle
    /\ HostIdle
    /\ MetadataIdle
    /\ pc = "bfs"
    /\ installed_packages = Names
    /\ prefer_security = FALSE
    /\ updates \in (SUBSET Names) \ {{}}
    /\ security_updates = {}
    /\ all_packages = <<>>
    /\ strategy = "repoquery"
    /\ processed = {}
    /\ to_process \in ListsOf(updates)
    /\ resolved = <<>>
    /\ errors = <<>>
    /\ queries = [NoQueries EXCEPT !.check_update = 1, !.download = 1]

FallbackNext ==
    \/ BfsSkip /\ UNCHANGED othersOfResolver
    \/ BfsInfoFails /\ UNCHANGED othersOfResolver
    \/ \E info \in InfoReplies :
          \E deps \in SeqsUpTo(DepLines, MaxDepLines) :
             BfsQuery(info, deps) /\ UNCHANGED othersOfResolver
    \/ BfsDone /\ UNCHANGED othersOfResolver
    \/ ClassifyStep /\ UNCHANGED othersOfResolver

\* the fallback alone; it is sequential code, so a step that can be taken
\* is taken
FallbackSpec == FallbackInit /\ [][FallbackNext]_vars /\ WF_vars(FallbackNext)

---------------------------------------------------------------------------
(* Claims about the merger (checked under Spec).                           *)

\* m is a JSON object whose os.major is absent or is not T
WrongOsMajor(T, m) ==
    /\ m.kind = "object"
    /\ m.os_kind # "not_dict"
    /\ ~(m.has_major /\ m.major = T)

\* every accepted manifest is of the target OS major
AllAcceptedAreTarget(T, ms) ==
    \A i \in DOMAIN ms :
        ms[i].kind = "object" /\ ms[i].os_kind = "dict"
        /\ ms[i].has_major /\ ms[i].major = T

C2_AcceptanceIdempotent ==
    [][ (/\ call'.op = "add_manifest"
         /\ call'.outcome = "True"
         /\ call'.content \in Range(manifests))
        => /\ Len(manifests') = Len(manifests) + 1
           /\ Len(get_host_summary(manifests', manifest_hashes'))
                = Len(get_host_summary(manifests, manifest_hashes)) + 1
           /\ get_merged_installed_rpms(manifests') = get_merged_installed_rpms(manifests)
      ]_vars

\* C2 witness: the same manifest sits twice in the accepted list, just added
\* again, and the merged view is not empty.
C2_Witness ==
    /\ call.op = "add_manifest"
    /\ call.outcome = "True"
    /\ \E i, j \in DOMAIN manifests :
          i < j /\ j = Len(manifests) /\ manifests[i] = manifests[j]
    /\ DOMAIN get_merged_installed_rpms(manifests) # {}

\* C3 (as claimed): a directory ingestion that returns has offered every
\* *.json file exactly once, so the returned count is the number of *.json
\* files holding a manifest of the target OS major and is the growth of the
\* accepted list.
C3_CountIsTargetFiles ==
    (call.op = "add_manifests_from_directory" /\ call.outcome = "returned")
    => /\ call.count = call.n_target
       /\ Len(manifests) - call.before = call.count

\* C4 (as claimed): directory ingestion never raises on a file that fails to
\* parse as a manifest, whatever its name, and still ingests every target
\* manifest among the files it visits.
C4_MalformedSkipped ==
    call.op = "add_manifests_from_directory"
    => /\ call.outcome = "returned"
       /\ Len(manifests) - call.before = call.n_offered
       /\ call.count = call.n_offered

---------------------------------------------------------------------------
(* Claims about the resolver (checked under ResolverSpec, termination      *)
(* under FallbackSpec).                                                    *)

\* the rule of step 4 as the specification words it, over the sets that
\* resolve() holds when it classifies
Step4Rule(name) ==
    IF name \in security_updates THEN "security"
    ELSE IF name \in updates THEN "update"
    ELSE "dependency"

C6_Step4RuleDecides ==
    pc = "done" =>
        /\ Len(resolved) = Len(all_packages)
        /\ \A i \in DOMAIN resolved :
              /\ resolved[i].nevra = all_packages[i].nevra
              /\ resolved[i].name = all_packages[i].name
              /\ resolved[i].package_type \in {"security", "update", "dependency"}
              /\ resolved[i].package_type = Step4Rule(resolved[i].name)
              /\ ~prefer_security => resolved[i].package_type # "security"

\* C6 witness: resolve() returned a package whose provisional type, set by
\* the closure strategy, is not its final classification.
C6_Witness ==
    /\ pc = "done"
    /\ \E i \in DOMAIN resolved :
          all_packages[i].package_type # resolved[i].package_type

\* C7 (as claimed): a returned package whose name is not in the update set
\* is classified dependency.
C7_NotUpdateIsDependency ==
    pc = "done" =>
        \A i \in DOMAIN resolved :
            resolved[i].name \notin updates => resolved[i].package_type = "dependency"

\* C7 (amended): a returned package whose name is neither in the update set
\* nor in the security set is classified dependency.
C7_NeitherSetIsDependency ==
    pc = "done" =>
        \A i \in DOMAIN resolved :
            (resolved[i].name \notin updates /\ resolved[i].name \notin security_updates)
            => resolved[i].package_type = "dependency"

\* C7 witness: with the advisory query made and not empty, resolve()
\* returned a package that is in neither set.
C7_Witness ==
    /\ pc = "done"
    /\ security_updates # {}
    /\ \E i \in DOMAIN resolved :
          /\ resolved[i].name \notin updates \cup security_updates
          /\ resolved[i].package_type = "dependency"

\* C8 (as claimed): no two packages resolve() returns have the same nevra,
\* whichever strategy produced them.
C8_NevraUnique ==
    pc = "done" =>
        \A i, j \in DOMAIN resolved :
            i # j => resolved[i].nevra # resolved[j].nevra

\* C9: when the update check leaves no update for the installed names,
\* resolve() returns the empty list and the update check is the only
\* external query made.
C9_NoUpdatesNoFurtherQuery ==
    (pc = "done" /\ updates = {}) =>
        /\ resolved = <<>>
        /\ queries = [NoQueries EXCEPT !.check_update = 1]

\* C9 witness: for a resolver with a single installed name, the update
\* check ran without error, left no update, and resolve() returned.
C9_Witness ==
    /\ pc = "done"
    /\ updates = {}
    /\ errors = <<>>
    /\ queries.check_update = 1
    /\ installed_packages # Names

\* C10: the breadth-first fallback asks for the version info and for the
\* requirements of each name at most once, and once entered it runs to the
\* end of resolve(), whatever the requirement replies are (cycles and
\* self-requirements included).
C10_FallbackTerminates ==
    /\ [](\A n \in Names : queries.info[n] <= 1 /\ queries.requires[n] <= 1)
    /\ (pc = "bfs") ~> (pc = "done")

\* C10 witness: the fallback pops a name it has processed before.
C10_Witness ==
    /\ pc = "bfs"
    /\ to_process # <<>>
    /\ Head(to_process) \in processed
    /\ queries.requires[Head(to_process)] = 1

---------------------------------------------------------------------------
(* RPMDownloader                                                           *)

\* most packages handed to one download_packages call
MaxPackages == 3

\* most files in the download directory
MaxRpmFiles == 2

\* Optional values: None, or the value that is present
None == <<>>
Some(x) == <<x>>

\* a file of the download directory: its stem as dash-separated tokens, and
\* its suffix
DirFile(stem, suffix) == [stem |-> stem, suffix |-> suffix]

\* the default output of generate_checksums_file, inside download_dir
Sha256SumsFile == DirFile(<<"SHA256SUMS">>, "")

\* bash-5.1.8-9.el9.x86_64.rpm, openssl-3.0.7-25.el9.x86_64.rpm,
\* openssl-libs-3.0.7-25.el9.x86_64.rpm, bash-latest.rpm, SHA256SUMS
DownloadDirFiles ==
    { DirFile(<<"bash", "5.1.8", "9.el9.x86_64">>, ".rpm"),
      DirFile(<<"openssl", "3.0.7", "25.el9.x86_64">>, ".rpm"),
      DirFile(<<"openssl", "libs", "3.0.7", "25.el9.x86_64">>, ".rpm"),
      DirFile(<<"bash", "latest">>, ".rpm"),
      Sha256SumsFile }

\* the download directory as glob lists it: distinct files, in any order
DownloadListings ==
    {d \in SeqsUpTo(DownloadDirFiles, MaxRpmFiles) :
        \A i, j \in DOMAIN d : i # j => d[i] # d[j]}

\* the packages a caller hands over: resolver output, the same name possibly
\* more than once
PackageLists ==
    SeqsUpTo({ResolvedPackage(n, [name |-> n, arch |-> "x86_64"], "update") : n \in Names},
             MaxPackages)

\* how the bulk "dnf download" ended: exit status 0, another exit status, or
\* subprocess.run raising OSError because dnf could not be started
FetchOutcomes == {"0", "nonzero", "OSError"}

\* self.download_dir.glob("*.rpm")
GlobRpm(dir) == SelectSeq(dir, LAMBDA f : f.suffix = ".rpm")

\* basename.rsplit("-", 2): at least three parts iff the stem has two dashes
HasNevraParts(f) == Len(f.stem) >= 3

\* parts[0] of basename.rsplit("-", 2)
RsplitName(f) == SubSeq(f.stem, 1, Len(f.stem) - 2)

\* rpm_by_name.get(name) after the loop over downloaded_rpms: a later file
\* of the same name part overwrites an earlier one
RpmByName(downloaded_rpms, name) ==
    LET hits == {i \in DOMAIN downloaded_rpms :
                    /\ HasNevraParts(downloaded_rpms[i])
                    /\ RsplitName(downloaded_rpms[i]) = name}
    IN  IF hits = {} THEN None
        ELSE Some(downloaded_rpms[CHOOSE i \in hits : \A j \in hits : j <= i])

\* rpm_file.name.startswith(f"{pkg.name}-")
StartsWithName(f, name) ==
    /\ Len(f.stem) > Len(name)
    /\ SubSeq(f.stem, 1, Len(name)) = name

\* the first file of downloaded_rpms the partial match finds
PartialMatch(downloaded_rpms, name) ==
    LET hits == {i \in DOMAIN downloaded_rpms : StartsWithName(downloaded_rpms[i], name)}
    IN  IF hits = {} THEN None
        ELSE Some(downloaded_rpms[CHOOSE i \in hits : \A j \in hits : i <= j])

\* _compute_sha256(filepath): each file of DownloadDirFiles has its own
\* content, so the digest is modelled by the file it identifies
ComputeSha256(f) == <<"sha256", f>>

DownloadResult(pkg, success, local_path, sha256, error) ==
    [package |-> pkg, success |-> success, local_path |-> local_path,
     sha256 |-> sha256, error |-> error]

NotFound == "Package not found in downloads"

\* a failed result that keeps the path of the last file looked at
FailedWithPath(pkg, downloaded_rpms) ==
    DownloadResult(pkg, FALSE,
                   IF downloaded_rpms = <<>> THEN None
                   ELSE Some(downloaded_rpms[Len(downloaded_rpms)]),
                   None, Some(NotFound))

\* the failed result appended when neither match finds a file
Failed(pkg, downloaded_rpms) ==
    DownloadResult(pkg, FALSE, None, None, Some(NotFound))

\* the result _verify_downloads appends for one expected package
VerifyOne(pkg, downloaded_rpms) ==
    LET exact   == RpmByName(downloaded_rpms, pkg.name)
        partial == PartialMatch(downloaded_rpms, pkg.name)
    IN  IF exact # None
          THEN DownloadResult(pkg, TRUE, exact, Some(ComputeSha256(exact[1])), None)
        ELSE IF partial # None
          THEN DownloadResult(pkg, TRUE, partial, Some(ComputeSha256(partial[1])), None)
        ELSE Failed(pkg, downloaded_rpms)

\* a verification that records the packages it finds and no others
VerifyFoundOnly(packages, dir) ==
    SelectSeq([i \in DOMAIN packages |-> VerifyOne(packages[i], GlobRpm(dir))],
              LAMBDA r : r.success)

\* _verify_downloads(packages) over the directory dir
VerifyDownloads(packages, dir) ==
    [i \in DOMAIN packages |-> VerifyOne(packages[i], GlobRpm(dir))]

\* Python's str order on the package names
NamesInOrder == << <<"bash">>, <<"openssl">>, <<"openssl", "libs">> >>

RECURSIVE SortedFrom(_, _)
\* the results whose package name is NamesInOrder[k] or later, name by name,
\* each name's results in the order they have in rs
SortedFrom(rs, k) ==
    IF k > Len(NamesInOrder) THEN <<>>
    ELSE SelectSeq(rs, LAMBDA r : r.package.name = NamesInOrder[k])
         \o SortedFrom(rs, k + 1)

\* the results in the order they were produced
Unsorted(rs) == rs

\* sorted(self.results, key=lambda r: r.package.name): a stable sort
SortedByName(rs) == SortedFrom(rs, 1)

\* a piece of text: a checksum line "<sha256>  <filename>", or a newline
ChecksumLine(r) == [newline |-> FALSE, sha256 |-> r.sha256, name |-> r.local_path]
Newline == [newline |-> TRUE, sha256 |-> None, name |-> None]

RECURSIVE Join(_)
\* "\n".join(lines)
Join(lines) ==
    IF lines = <<>> THEN <<>>
    ELSE IF Len(lines) = 1 THEN <<Head(lines)>>
    ELSE <<Head(lines), Newline>> \o Join(Tail(lines))

\* the text generate_checksums_file writes for the results rs
ChecksumsText(rs) ==
    LET kept  == SelectSeq(SortedByName(rs),
                           LAMBDA r : r.success /\ r.sha256 # None /\ r.local_path # None)
        lines == [i \in DOMAIN kept |-> ChecksumLine(kept[i])]
    IN  Join(lines) \o <<Newline>>

\* download_packages(packages): the bulk fetch ends as fetch and leaves the
\* directory as glob then lists it in dir
download_packages(packages, fetch, dir) ==
    /\ IF packages = <<>>
         THEN /\ results' = <<>>
              /\ dl_call' = [op |-> "download_packages", packages |-> packages,
                             fetches |-> 0, outcome |-> "returned"]
              /\ UNCHANGED download_dir
       ELSE IF fetch = "OSError"
         THEN /\ results' = <<>>
              /\ dl_call' = [op |-> "download_packages", packages |-> packages,
                             fetches |-> 1, outcome |-> "OSError"]
              /\ UNCHANGED download_dir
       ELSE /\ download_dir' = dir
            /\ results' = VerifyDownloads(packages, dir)
            /\ dl_call' = [op |-> "download_packages", packages |-> packages,
                           fetches |-> 1, outcome |-> "returned"]
    /\ UNCHANGED checksums_file

\* generate_checksums_file(output_path): by default the file is SHA256SUMS
\* inside download_dir
generate_checksums_file(default) ==
    /\ checksums_file' = <<ChecksumsText(results)>>
    /\ download_dir' =
          IF default /\ Sha256SumsFile \notin Range(download_dir)
            THEN Append(download_dir, Sha256SumsFile)
            ELSE download_dir
    /\ dl_call' = [dl_call EXCEPT !.op = "generate_checksums_file"]
    /\ UNCHANGED results

\* RPMDownloader(download_dir) on the directory build() has just made
DownloaderInit ==
    /\ MergerIdle
    /\ ResolverIdle
    /\ BuilderIdle
    /\ ValidatorIdle
    /\ HostIdle
    /\ MetadataIdle
    /\ download_dir = <<>>
    /\ results = <<>>
    /\ checksums_file = NoFile
    /\ dl_call = NoDownload

\* build() makes one downloader per run and downloads with it once, and so
\* does the model
FreshDownloader == dl_call.op # "download_packages" /\ dl_call.fetches = 0

DownloaderNext ==
    \/ /\ FreshDownloader
       /\ \E packages \in PackageLists :
             \E fetch \in FetchOutcomes :
                \E dir \in DownloadListings :
                   download_packages(packages, fetch, dir) /\ UNCHANGED othersOfDownloader
    \/ \E default \in BOOLEAN :
          generate_checksums_file(default) /\ UNCHANGED othersOfDownloader

DownloaderSpec == DownloaderInit /\ [][DownloaderNext]_vars

---------------------------------------------------------------------------
(* Claims about the downloader (checked under DownloaderSpec).             *)

\* position of a name in Python's str order
NameRank(n) == CHOOSE k \in DOMAIN NamesInOrder : NamesInOrder[k] = n

C12_ResultsWellFormed ==
    \A i \in DOMAIN results :
        LET r == results[i] IN
        /\ r.success <=> (r.local_path # None /\ r.sha256 # None /\ r.error = None)
        /\ ~r.success <=> (r.local_path = None /\ r.sha256 = None /\ r.error = Some(NotFound))

\* a call returned a success and a failure, with files in the directory
C12_Witness ==
    /\ dl_call.op = "download_packages"
    /\ dl_call.outcome = "returned"
    /\ GlobRpm(download_dir) # <<>>
    /\ \E i, j \in DOMAIN results : results[i].success /\ ~results[j].success

\* the lines of a text that ends with a newline: what stands between the
\* newlines before the last one; no line when the text is that newline alone
LinesOf(text) ==
    LET body == SubSeq(text, 1, Len(text) - 1)
    IN  [i \in 1..((Len(body) + 1) \div 2) |-> body[2 * i - 1]]

\* a text made of lines, one newline between two lines and one at the end
IsLinesThenNewline(text) ==
    /\ text # <<>>
    /\ text[Len(text)].newline
    /\ \A i \in 1..(Len(text) - 1) : text[i].newline <=> (i % 2 = 0)
    /\ Len(text) = 1 \/ Len(text) % 2 = 0

\* C13: the checksums file consists of exactly one line "<sha256>  <filename>"
\* per successful DownloadResult, ordered by package name ascending, followed
\* by a trailing newline and nothing else; failed results contribute no line.
\* Stated of the file as generate_checksums_file leaves it.
C13_ChecksumsFile ==
    dl_call.op = "generate_checksums_file" =>
        LET text  == checksums_file[1]
            lines == LinesOf(text)
            succ  == SelectSeq(results, LAMBDA r : r.success)
        IN  /\ IsLinesThenNewline(text)
            /\ Len(lines) = Len(succ)
            /\ \E ord \in [DOMAIN succ -> DOMAIN succ] :
                  /\ \A i, j \in DOMAIN succ : i # j => ord[i] # ord[j]
                  /\ \A i \in DOMAIN succ :
                        /\ lines[i].sha256 = succ[ord[i]].sha256
                        /\ lines[i].name = succ[ord[i]].local_path
                  /\ \A i, j \in DOMAIN succ :
                        i < j => NameRank(succ[ord[i]].package.name)
                                    <= NameRank(succ[ord[j]].package.name)

\* the file was written for two successes that the results hold in
\* descending name order, and a failure
C13_Witness ==
    /\ dl_call.op = "generate_checksums_file"
    /\ Len(results) = 3
    /\ results[1].success /\ results[2].success /\ ~results[3].success
    /\ NameRank(results[1].package.name) > NameRank(results[2].package.name)
    /\ Len(LinesOf(checksums_file[1])) = 2

---------------------------------------------------------------------------
(* BundleBuilder.build(), one pipeline step per action.  The file system   *)
(* and the external tools answer nondeterministically.                     *)

\* a line of self.build_log: the message, the number it reports, and for an
\* ERROR line the exception it names
Entry(msg, n) == [msg |-> msg, n |-> n, e |-> ""]
ErrorEntry(e) == [msg |-> "ERROR", n |-> 0, e |-> e]

\* the directories lines 75-76 create, in the order they are created
WorkDirs == <<".", "rpms", "manifests">>

\* a file of output_dir that belongs to this bundle: <bundle_id><ext>;
\* incomplete if its writer was interrupted; log is the build.log inside it
Archive(ext, complete, log) == [ext |-> ext, complete |-> complete, log |-> log]

\* an except clause that logs and re-raises, with no cleanup after it
AbortKeepTree(log, e) ==
    /\ build_log' = Append(log, ErrorEntry(e))
    /\ build_result' = [kind |-> "raised", archive |-> "", exit |-> -1]
    /\ bpc' = "done"
    /\ UNCHANGED <<bundle_work_dir, build_log_file>>

\* the except and finally clauses of build() after log was written and
\* exception e was raised inside the try block
Abort(log, e) ==
    /\ build_log' = Append(log, ErrorEntry(e))
    /\ bundle_work_dir' = {}
    /\ build_log_file' = NoFile
    /\ build_result' = [kind |-> "raised", archive |-> "", exit |-> -1]
    /\ bpc' = "done"

RECURSIVE Repeat(_, _)
Repeat(x, n) == IF n = 0 THEN <<>> ELSE <<x>> \o Repeat(x, n - 1)

\* build() up to the try block: the bundle id, the first log line and the
\* working directories, of which made are created before mkdir raises
build_enter(made) ==
    /\ bpc = "build"
    /\ build_log' = Append(build_log, Entry("Starting bundle build", 0))
    /\ bundle_work_dir' = {WorkDirs[i] : i \in 1..made}
    /\ IF made = Len(WorkDirs)
         THEN bpc' = "step1" /\ UNCHANGED build_result
         ELSE /\ bpc' = "done"
              /\ build_result' = [kind |-> "raised", archive |-> "", exit |-> -1]
    /\ UNCHANGED <<output_dir, build_log_file, ran>>

\* Steps 1 and 2: the merger ingests the manifest directory listed as ord (a
\* missing directory lists as an empty one), the manifests are copied, the
\* installed packages are merged
load_manifests(ord, copied) ==
    /\ bpc = "step1"
    /\ add_manifests_from_directory(ord)
    /\ ran' = ran \cup {"merger"}
    /\ LET log1 == Append(build_log, Entry("Step 1: Loading manifests", 0))
           log2 == Append(log1, Entry("Loaded manifests", call'.count))
           log3 == log2 \o
                   << Entry("Step 2: Merging installed packages", 0),
                      Entry("Found unique packages",
                            Cardinality(DOMAIN get_merged_installed_rpms(manifests'))) >>
       IN  IF call'.outcome # "returned"
             THEN Abort(log1, call'.outcome)
           ELSE IF call'.count = 0
             THEN Abort(log2, "RuntimeError")
           ELSE IF ~copied
             THEN Abort(log2, "OSError")
           ELSE /\ build_log' = log3
                /\ bundle_work_dir' = bundle_work_dir \cup {"manifests/*.json"}
                /\ bpc' = "step3"
                /\ UNCHANGED <<build_log_file, build_result>>
    /\ UNCHANGED output_dir

\* how the resolver and the downloader end: both return, or one of them
\* raises because dnf cannot be started
FetchEnds == {"returned", "resolver raises", "downloader raises"}

\* Steps 3 and 4: resolve() returns n packages, with or without recorded
\* errors; if n > 0 they are downloaded, found of them successfully
resolve_and_download(n, warned, found, end) ==
    /\ bpc = "step3"
    /\ LET log1 == Append(build_log, Entry("Step 3: Resolving updates and dependencies", 0))
           log2 == Append(log1, Entry("Resolved packages", n))
                   \o (IF warned THEN <<Entry("Warning", 0)>> ELSE <<>>)
                   \o (IF n = 0 THEN <<Entry("No updates available - creating empty bundle", 0)>>
                       ELSE <<>>)
           log3 == Append(log2, Entry("Step 4: Downloading RPMs", 0))
           log4 == IF n = 0 THEN log3
                   ELSE Append(log3, Entry("Downloaded", found))
                        \o Repeat(Entry("Failed", 0), n - found)
       IN  IF end = "resolver raises"
             THEN /\ ran' = ran \cup {"resolver"}
                  /\ Abort(log1, "OSError")
           ELSE IF n > 0 /\ end = "downloader raises"
             THEN /\ ran' = ran \cup {"resolver", "downloader"}
                  /\ Abort(log3, "OSError")
           ELSE /\ ran' = ran \cup {"resolver"} \cup (IF n > 0 THEN {"downloader"} ELSE {})
                /\ build_log' = log4
                /\ bpc' = "step5"
                /\ UNCHANGED <<bundle_work_dir, build_log_file, build_result>>
    /\ UNCHANGED output_dir

\* how an external tool run with check=True ends
ToolEnds == {"0", "FileNotFoundError", "CalledProcessError"}

\* the exception _generate_repodata leaves with, "" if it returns
GenerateRepodata(first, second) ==
    IF first = "0" THEN ""
    ELSE IF first = "FileNotFoundError"
      THEN (IF second = "0" THEN "" ELSE second)
    ELSE first

\* the index generators _generate_repodata runs
GeneratorsRun(first) ==
    IF first = "FileNotFoundError" THEN {"createrepo_c", "createrepo"}
    ELSE {"createrepo_c"}

\* Step 5: createrepo_c ends as first, createrepo (if run) as second
generate_repodata(first, second) ==
    /\ bpc = "step5"
    /\ ran' = ran \cup GeneratorsRun(first)
    /\ LET log1 == Append(build_log, Entry("Step 5: Generating repodata", 0))
           e    == GenerateRepodata(first, second)
       IN  IF e # ""
             THEN Abort(log1, e)
             ELSE /\ build_log' = Append(log1, Entry("Repodata generated", 0))
                  /\ bundle_work_dir' = bundle_work_dir \cup {"rpms/repodata"}
                  /\ bpc' = "step6"
                  /\ UNCHANGED <<build_log_file, build_result>>
    /\ UNCHANGED output_dir

\* Steps 6 and 7: SHA256SUMS and metadata.json are written, if the writes
\* succeed
write_checksums_and_metadata(written) ==
    /\ bpc = "step6"
    /\ LET log1 == Append(build_log, Entry("Step 6: Generating checksums", 0))
           log2 == Append(log1, Entry("Step 7: Building metadata", 0))
       IN  IF written = 0
             THEN Abort(log1, "OSError")
           ELSE IF written = 1
             THEN Abort(log2, "OSError")
           ELSE /\ build_log' = Append(log2, Entry("Metadata written", 0))
                /\ bundle_work_dir' = bundle_work_dir \cup {"SHA256SUMS", "metadata.json"}
                /\ bpc' = "step8"
                /\ UNCHANGED <<build_log_file, build_result>>
    /\ UNCHANGED <<output_dir, ran>>

\* Step 8: the log so far is written to build.log in the working tree
write_build_log(written) ==
    /\ bpc = "step8"
    /\ LET log1 == Append(build_log, Entry("Step 8: Finalizing", 0))
       IN  IF ~written
             THEN Abort(log1, "OSError")
             ELSE /\ build_log' = log1
                  /\ build_log_file' = <<log1>>
                  /\ bundle_work_dir' = bundle_work_dir \cup {"build.log"}
                  /\ bpc' = "step9"
                  /\ UNCHANGED build_result
    /\ UNCHANGED <<output_dir, ran>>

\* what _create_archive leaves in output_dir and how it ends: the tar is
\* written (tar), zstd compresses it and removes it (zstd; on failure it
\* may leave what it wrote, zleft), or else a gzipped tar is written (gz)
CreateArchive(tar, zstd, zleft, gz, log) ==
    LET partialTar == Archive(".tar", FALSE, log)
        fullTar    == Archive(".tar", TRUE, log)
        partialZst == IF zstd = "CalledProcessError" /\ zleft
                        THEN {Archive(".tar.zst", FALSE, log)} ELSE {}
    IN  IF ~tar
          THEN [files |-> {partialTar}, tools |-> {"tarfile"},
                archive |-> "", e |-> "OSError"]
        ELSE IF zstd = "0"
          THEN [files |-> {Archive(".tar.zst", TRUE, log)}, tools |-> {"tarfile", "zstd"},
                archive |-> ".tar.zst", e |-> ""]
        ELSE IF gz
          THEN [files |-> {fullTar, Archive(".tar.gz", TRUE, log)} \cup partialZst,
                tools |-> {"tarfile", "zstd", "gzip"},
                archive |-> ".tar.gz", e |-> ""]
        ELSE [files |-> {fullTar, Archive(".tar.gz", FALSE, log)} \cup partialZst,
              tools |-> {"tarfile", "zstd", "gzip"},
              archive |-> "", e |-> "OSError"]

\* Step 9: the working tree is archived into output_dir
create_archive(tar, zstd, zleft, gz) ==
    /\ bpc = "step9"
    /\ LET log1 == Append(build_log, Entry("Step 9: Creating archive", 0))
           r    == CreateArchive(tar, zstd, zleft, gz, build_log_file)
       IN  /\ output_dir' = output_dir \cup r.files
           /\ ran' = ran \cup r.tools
           /\ IF r.e # ""
                THEN Abort(log1, r.e)
                ELSE /\ build_log' = Append(log1, Entry("Bundle created", 0))
                     /\ build_result' = [NoResult EXCEPT !.archive = r.archive]
                     /\ bpc' = "hash"
                     /\ UNCHANGED <<bundle_work_dir, build_log_file>>

\* the archive is hashed, the hash logged, the path returned and the
\* working tree removed
log_hash_and_return(hashed) ==
    /\ bpc = "hash"
    /\ IF ~hashed
         THEN Abort(build_log, "OSError")
         ELSE /\ build_log' = Append(build_log, Entry("SHA256", 0))
              /\ bundle_work_dir' = {}
              /\ build_log_file' = NoFile
              /\ build_result' = [build_result EXCEPT !.kind = "returned"]
              /\ bpc' = "done"
    /\ UNCHANGED <<output_dir, ran>>

\* main(): exit status 1 if build() raised, 0 after it returned
main_exit ==
    /\ bpc = "done"
    /\ bpc' = "exited"
    /\ build_result' = [build_result EXCEPT
                          !.exit = IF build_result.kind = "raised" THEN 1 ELSE 0]
    /\ UNCHANGED <<bundle_work_dir, output_dir, build_log, build_log_file, ran>>

\* BundleBuilder(os_major, manifest_dir, output_dir, work_dir), build() entered
BuilderInit ==
    /\ os_major \in {8, 9}
    /\ manifests = <<>>
    /\ manifest_hashes = <<>>
    /\ call = NoCall
    /\ ResolverIdle
    /\ DownloaderIdle
    /\ ValidatorIdle
    /\ HostIdle
    /\ MetadataIdle
    /\ bpc = "build"
    /\ bundle_work_dir = {}
    /\ output_dir = {}
    /\ build_log = <<>>
    /\ build_log_file = NoFile
    /\ ran = {}
    /\ build_result = NoResult

BuilderNext ==
    \/ \E made \in 0..Len(WorkDirs) :
          build_enter(made) /\ UNCHANGED othersOfBuilder
    \/ /\ bpc = "step1"
       /\ \E n \in 0..MaxDirFiles :
             \E ord \in DirListings(n) :
                \E copied \in BOOLEAN :
                   load_manifests(ord, copied)
                   /\ UNCHANGED <<resolverVars, downloaderVars, validatorVars,
                                 hostVars, metadataVars>>
    \/ /\ bpc = "step3"
       /\ \E n \in 0..MaxPackages :
             \E found \in 0..n :
                \E warned \in BOOLEAN :
                   \E end \in FetchEnds :
                      resolve_and_download(n, warned, found, end)
                      /\ UNCHANGED othersOfBuilder
    \/ \E first, second \in ToolEnds :
          generate_repodata(first, second) /\ UNCHANGED othersOfBuilder
    \/ \E written \in 0..2 :
          write_checksums_and_metadata(written) /\ UNCHANGED othersOfBuilder
    \/ \E written \in BOOLEAN :
          write_build_log(written) /\ UNCHANGED othersOfBuilder
    \/ \E tar, zleft, gz \in BOOLEAN :
          \E zstd \in ToolEnds :
             create_archive(tar, zstd, zleft, gz) /\ UNCHANGED othersOfBuilder
    \/ \E hashed \in BOOLEAN :
          log_hash_and_return(hashed) /\ UNCHANGED othersOfBuilder
    \/ main_exit /\ UNCHANGED othersOfBuilder

BuilderSpec == BuilderInit /\ [][BuilderNext]_vars

---------------------------------------------------------------------------
(* Claims about the builder (checked under BuilderSpec).                   *)

\* build() has ended
BuildEnded == bpc \in {"done", "exited"}

\* the log has a line with message msg
Logged(log, msg) == \E i \in DOMAIN log : log[i].msg = msg

\* the build failed while step was the last step announced in the log
FailedAt(step) ==
    /\ BuildEnded
    /\ build_result.kind = "raised"
    /\ Len(build_log) >= 2
    /\ build_log[Len(build_log)].msg = "ERROR"
    /\ build_log[Len(build_log) - 1].msg = step

\* C14: every build() invocation, whether it returns an archive or fails at
\* any step, also while creating the working directories, ends with the
\* bundle's working tree removed.
C14_WorkTreeRemoved == BuildEnded => bundle_work_dir = {}

\* C15: every build() either returns the path of a complete archive, or
\* fails leaving no partial archive: after a failed build, and after a
\* successful build that used the compressor fallback, output_dir holds no
\* <bundle_id>.tar, .tar.zst or .tar.gz other than the returned archive.
C15_NoLeftoverArchive ==
    BuildEnded =>
        IF build_result.kind = "returned"
          THEN \E a \in output_dir :
                  /\ a.ext = build_result.archive
                  /\ a.complete
                  /\ output_dir = {a}
          ELSE output_dir = {}

\* C16: a build whose manifest directory is missing or yields zero accepted
\* manifests aborts before any resolver, downloader, index-generator or
\* archiver step runs: it logs the error, removes the working tree, produces
\* no archive and propagates the failure to the caller.
C16_NoManifestsAborts ==
    (call.op = "add_manifests_from_directory" /\ call.outcome = "returned"
     /\ call.count = 0) =>
        /\ ran = {"merger"}
        /\ BuildEnded
        /\ build_result.kind = "raised"
        /\ build_log[Len(build_log)] = ErrorEntry("RuntimeError")
        /\ bundle_work_dir = {}
        /\ build_log_file = NoFile
        /\ output_dir = {}
        /\ bpc = "exited" => build_result.exit = 1

\* main() has exited after a build that found the working directories made
\* and accepted no manifest
C16_Witness ==
    /\ bpc = "exited"
    /\ call.op = "add_manifests_from_directory"
    /\ call.outcome = "returned"
    /\ call.count = 0
    /\ Logged(build_log, "Loaded manifests")
    /\ build_result.exit = 1

\* C17: after every successful build the persisted build log file
\* (build.log) records the SHA-256 of the finished archive, computed after
\* compression.
C17_LogFileRecordsHash ==
    (BuildEnded /\ build_result.kind = "returned") =>
        \/ build_log_file # NoFile /\ Logged(build_log_file[1], "SHA256")
        \/ \E a \in output_dir :
              /\ a.ext = build_result.archive
              /\ a.log # NoFile
              /\ Logged(a.log[1], "SHA256")

\* C18: whenever the preferred index generator fails, by being unavailable
\* or by exiting non-zero, the second generator is tried, and the build
\* fails at this step only if both fail.
C18_IndexFallbackOnAnyFailure ==
    FailedAt("Step 5: Generating repodata") => {"createrepo_c", "createrepo"} \subseteq ran

---------------------------------------------------------------------------
(* ManifestValidator                                                       *)

REQUIRED_FIELDS ==
    <<"schema_version", "host_id", "os", "arch", "enabled_repos",
      "installed_rpms", "timestamp">>
REQUIRED_OS_FIELDS == <<"major", "minor", "name">>
REQUIRED_RPM_FIELDS == <<"name", "epoch", "version", "release", "arch">>
VALID_ARCHES == {"x86_64", "aarch64", "noarch", "i686"}
VALID_OS_MAJORS == {8, 9}

\* range(min(len(rpms), 100)): the entries that are looked at
SampleSize == 100

\* a JSON scalar under a key: t is "absent" when the key is missing, else
\* the JSON type; n is the number (a "float" n is the number n.0), s the
\* string
Scalar(t, n, s) == [t |-> t, n |-> n, s |-> s]
Absent == Scalar("absent", 0, "")
Null == Scalar("null", 0, "")
StrVal(s) == Scalar("str", 0, s)
IntVal(n) == Scalar("int", n, "")

\* dict.get(key): None for a missing key
Get(v) == IF v.t = "absent" THEN Null ELSE v

\* the truth value Python gives a scalar
Truthy(v) ==
    CASE v.t \in {"absent", "null"} -> FALSE
      [] v.t = "str" -> v.s # ""
      [] OTHER -> v.n # 0

\* isinstance(v, int); bool is a subclass of int
IsInt(v) == v.t \in {"int", "bool"}

\* how a message shows a scalar
Repr(v) ==
    CASE v.t = "str" -> v.s
      [] v.t \in {"null", "absent"} -> "None"
      [] v.t = "float" -> ToString(v.n) \o ".0"
      [] OTHER -> ToString(v.n)

\* the "os" value: an object with some keys, or a string, or null, or the
\* key is missing
Os(kind, keys, major, minor) ==
    [kind |-> kind, keys |-> keys, major |-> major, minor |-> minor]

\* an entry of enabled_repos and of installed_rpms: an object with some
\* keys (and its arch), or a string
Item(kind, keys, arch) == [kind |-> kind, keys |-> keys, arch |-> arch]

\* the value under a list-valued key: a list of items, or a string, or the
\* key is missing
ListValue(kind, items) == [kind |-> kind, items |-> items]

GoodRepo == Item("dict", {"id", "name"}, "")
GoodRpm == Item("dict", Range(REQUIRED_RPM_FIELDS) \cup {"nevra"}, "x86_64")

\* the sample manifest of the tests, with one repository and two packages
SampleManifest ==
    [schema_version |-> StrVal("1.0"),
     host_id        |-> StrVal("test-host-01"),
     os             |-> Os("dict", {"name", "major", "minor", "id"}, IntVal(9), IntVal(6)),
     arch           |-> StrVal("x86_64"),
     enabled_repos  |-> ListValue("list", <<GoodRepo>>),
     installed_rpms |-> ListValue("list", <<GoodRpm, GoodRpm>>),
     timestamp      |-> StrVal("2024-01-15T12:00:00Z")]

\* the timestamps of the model that contain a "T"
WithT == {"2024-01-15T12:00:00Z"}

\* one change to a manifest: the key and the value put (or not put) there
Changes ==
    { <<"schema_version", Absent>>, <<"schema_version", StrVal("2.0")>>,
      <<"host_id", Absent>>,
      <<"os", Os("absent", {}, Absent, Absent)>>,
      <<"os", Os("str", {}, Absent, Absent)>>,
      <<"os", Os("null", {}, Absent, Absent)>>,
      <<"os", Os("dict", {"name", "minor"}, Absent, IntVal(6))>>,
      <<"os", Os("dict", {"name", "major"}, IntVal(9), Absent)>>,
      <<"os", Os("dict", {"major", "minor"}, IntVal(8), IntVal(10))>>,
      <<"os", Os("dict", {"name", "major", "minor"}, IntVal(7), IntVal(9))>>,
      <<"os", Os("dict", {"name", "major", "minor"}, IntVal(9), StrVal("6"))>>,
      <<"os", Os("dict", {"name", "major", "minor"}, Null, IntVal(6))>>,
      <<"os", Os("dict", {"name", "major", "minor"}, StrVal("9"), IntVal(6))>>,
      <<"os", Os("dict", {"name", "major", "minor"}, Scalar("float", 9, ""), IntVal(6))>>,
      <<"arch", Absent>>, <<"arch", StrVal("aarch64")>>, <<"arch", StrVal("ppc64le")>>,
      <<"arch", StrVal("")>>, <<"arch", Null>>,
      <<"enabled_repos", ListValue("absent", <<>>)>>,
      <<"enabled_repos", ListValue("str", <<>>)>>,
      <<"enabled_repos", ListValue("list", <<>>)>>,
      <<"enabled_repos", ListValue("list", <<Item("dict", {"id"}, "")>>)>>,
      <<"enabled_repos", ListValue("list", <<GoodRepo, Item("dict", {"name"}, "")>>)>>,
      <<"enabled_repos", ListValue("list", <<Item("str", {}, "")>>)>>,
      <<"installed_rpms", ListValue("absent", <<>>)>>,
      <<"installed_rpms", ListValue("str", <<>>)>>,
      <<"installed_rpms", ListValue("list", <<>>)>>,
      <<"installed_rpms", ListValue("list", <<Item("dict", Range(REQUIRED_RPM_FIELDS), "s390x")>>)>>,
      <<"installed_rpms", ListValue("list", <<Item("dict", Range(REQUIRED_RPM_FIELDS), "noarch")>>)>>,
      <<"installed_rpms", ListValue("list", <<GoodRpm, Item("dict", {"name", "arch"}, "x86_64")>>)>>,
      <<"installed_rpms", ListValue("list", <<Item("str", {}, "")>>)>>,
      <<"timestamp", Absent>>, <<"timestamp", StrVal("2024-01-15 12:00:00")>>,
      <<"timestamp", IntVal(1705320000)>> }

\* manifest m with change c made
Change(m, c) == [m EXCEPT ![c[1]] = c[2]]

\* the manifests validated: the sample, and the sample with one change or
\* with two changes under different keys
Manifests ==
    {SampleManifest}
    \cup {Change(SampleManifest, c) : c \in Changes}
    \cup {Change(Change(SampleManifest, c[1]), c[2]) :
             c \in {p \in Changes \X Changes : p[1][1] # p[2][1]}}

\* field in manifest
HasKey(m, field) ==
    IF field \in {"schema_version", "host_id", "arch", "timestamp"}
      THEN m[field].t # "absent"
      ELSE m[field].kind # "absent"

\* what a validation step adds: errors, warnings, and the exception it
\* raises ("" if none)
Found(errs, warns, raised) == [errors |-> errs, warnings |-> warns, raised |-> raised]

\* the messages for the fields of fields that are not in keys
Missing(prefix, fields, keys) ==
    LET lacking == SelectSeq(fields, LAMBDA f : f \notin keys)
    IN  [i \in DOMAIN lacking |-> prefix \o <<lacking[i]>>]

\* _validate_required_fields
ValidateRequiredFields(m) ==
    Found(Missing(<<"Missing required field: ">>, REQUIRED_FIELDS,
                  {f \in Range(REQUIRED_FIELDS) : HasKey(m, f)}),
          <<>>, "")

\* _validate_schema_version
ValidateSchemaVersion(m) ==
    LET version == Get(m.schema_version) IN
    Found(<<>>,
          IF Truthy(version) /\ version # StrVal("1.0")
            THEN << <<"Unknown schema version: ", Repr(version), " (expected 1.0)">> >>
            ELSE <<>>,
          "")

\* _validate_os: a string os_info passes the three "in" tests as substring
\* tests and fails at .get; None fails at the first "in"
ValidateOs(m) ==
    LET os_info == m.os
        keys    == IF os_info.kind = "dict" THEN os_info.keys ELSE {}
        missing == Missing(<<"Missing required os field: ">>, REQUIRED_OS_FIELDS, keys)
        major   == Get(os_info.major)
        minor   == Get(os_info.minor)
    IN  IF os_info.kind = "null" THEN Found(<<>>, <<>>, "TypeError")
        ELSE IF os_info.kind = "str" THEN Found(missing, <<>>, "AttributeError")
        ELSE Found(missing
                   \o (IF major.t # "null" /\ major.n \notin VALID_OS_MAJORS
                         THEN << <<"Invalid OS major version: ", Repr(major),
                                   " (expected 8 or 9)">> >>
                         ELSE <<>>)
                   \o (IF minor.t # "null" /\ ~IsInt(minor)
                         THEN << <<"OS minor version must be integer, got: ", minor.t>> >>
                         ELSE <<>>),
                   <<>>, "")

\* _validate_arch
ValidateArch(m) ==
    LET arch == Get(m.arch) IN
    Found(IF Truthy(arch) /\ ~(arch.t = "str" /\ arch.s \in {"x86_64", "aarch64"})
            THEN << <<"Invalid system ", "arch", "itecture: ", Repr(arch),
                      " (expected x86_64 or aarch64)">> >>
            ELSE <<>>,
          <<>>, "")

RECURSIVE RepoFindings(_, _)
\* the loop of _validate_repos over repos from index i on
RepoFindings(repos, i) ==
    IF i > Len(repos) THEN Found(<<>>, <<>>, "")
    ELSE LET repo == repos[i]
             rest == RepoFindings(repos, i + 1)
             at   == <<"enabled_repos", "[", ToString(i - 1), "]">>
         IN  IF repo.kind # "dict"
               THEN Found(<<at \o <<" must be an object">> >> \o rest.errors,
                          rest.warnings, "")
               ELSE Found((IF "id" \notin repo.keys
                             THEN <<at \o <<" missing required field: ", "id">> >>
                             ELSE <<>>) \o rest.errors,
                          (IF "name" \notin repo.keys
                             THEN <<at \o <<" missing field: ", "name">> >>
                             ELSE <<>>) \o rest.warnings,
                          "")

\* _validate_repos
ValidateRepos(m) ==
    LET repos == m.enabled_repos IN
    IF repos.kind = "absent" THEN Found(<<>>, <<>>, "")
    ELSE IF repos.kind # "list"
      THEN Found(<< <<"enabled_repos", " must be a list">> >>, <<>>, "")
    ELSE RepoFindings(repos.items, 1)

\* an rpm check that takes an unusual arch for an error
UnusualArchIsError(rpm, at) ==
    Found(Missing(at \o <<" missing required field: ">>, REQUIRED_RPM_FIELDS, rpm.keys)
          \o (IF rpm.arch # "" /\ rpm.arch \notin VALID_ARCHES
                THEN <<at \o <<" has unusual arch: ", rpm.arch>> >>
                ELSE <<>>),
          <<>>, "")

\* the checks of _validate_rpms on one object entry
CheckRpm(rpm, at) ==
    Found(Missing(at \o <<" missing required field: ">>, REQUIRED_RPM_FIELDS, rpm.keys),
          IF "arch" \in rpm.keys /\ rpm.arch # "" /\ rpm.arch \notin VALID_ARCHES
            THEN <<at \o <<" has unusual arch: ", rpm.arch>> >>
            ELSE <<>>,
          "")

RECURSIVE RpmFindings(_, _, _)
\* the loop of _validate_rpms over rpms[i..sample_size]
RpmFindings(rpms, i, sample_size) ==
    IF i > sample_size THEN Found(<<>>, <<>>, "")
    ELSE LET rpm  == rpms[i]
             rest == RpmFindings(rpms, i + 1, sample_size)
             at   == <<"installed_rpms", "[", ToString(i - 1), "]">>
             this == IF rpm.kind # "dict"
                       THEN Found(<<at \o <<" must be an object">> >>, <<>>, "")
                       ELSE CheckRpm(rpm, at)
         IN  Found(this.errors \o rest.errors, this.warnings \o rest.warnings, "")

\* _validate_rpms
ValidateRpms(m) ==
    LET rpms == m.installed_rpms IN
    IF rpms.kind = "absent" THEN Found(<<>>, << <<"installed_rpms", " is empty">> >>, "")
    ELSE IF rpms.kind # "list"
      THEN Found(<< <<"installed_rpms", " must be a list">> >>, <<>>, "")
    ELSE IF Len(rpms.items) = 0
      THEN Found(<<>>, << <<"installed_rpms", " is empty">> >>, "")
    ELSE RpmFindings(rpms.items, 1,
                     IF Len(rpms.items) < SampleSize THEN Len(rpms.items) ELSE SampleSize)

\* _validate_timestamp
ValidateTimestamp(m) ==
    LET timestamp == Get(m.timestamp) IN
    IF ~Truthy(timestamp) THEN Found(<<>>, <<>>, "")
    ELSE IF timestamp.t # "str"
      THEN Found(<< <<"timestamp", " must be a string">> >>, <<>>, "")
    ELSE IF timestamp.s \notin WithT
      THEN Found(<< <<"timestamp", " must be ISO 8601 format, got: ", timestamp.s>> >>,
                 <<>>, "")
    ELSE Found(<<>>, <<>>, "")

RECURSIVE RunSteps(_, _)
\* the steps of validate in order, up to the first that raises
RunSteps(steps, acc) ==
    IF steps = <<>> \/ acc.raised # "" THEN acc
    ELSE RunSteps(Tail(steps),
                  Found(acc.errors \o Head(steps).errors,
                        acc.warnings \o Head(steps).warnings,
                        Head(steps).raised))

\* validate(manifest): self.errors and self.warnings as it leaves them, and
\* what it returns or raises
Validate(m) ==
    LET r == RunSteps(<< ValidateRequiredFields(m), ValidateSchemaVersion(m),
                         ValidateOs(m), ValidateArch(m), ValidateRepos(m),
                         ValidateRpms(m), ValidateTimestamp(m) >>,
                      Found(<<>>, <<>>, ""))
    IN  [errors |-> r.errors, warnings |-> r.warnings,
         outcome |-> IF r.raised # "" THEN r.raised
                     ELSE IF Len(r.errors) = 0 THEN "True" ELSE "False"]

\* validator.validate(m)
validate(m) ==
    LET r == Validate(m) IN
    /\ validator_errors' = r.errors
    /\ validator_warnings' = r.warnings
    /\ validate_call' = [op |-> "validate", file |-> "none", manifest |-> <<m>>,
                          outcome |-> r.outcome]

\* the files validate_file is given: no file at the path, bytes that are
\* not UTF-8 text, text that is not JSON, the JSON text "[]", or a JSON
\* object: the sample manifest with at most one change
ManifestFiles ==
    {[kind |-> k, manifest |-> <<>>] :
        k \in {"missing", "undecodable", "invalid_json", "list"}}
    \cup {[kind |-> "object", manifest |-> <<m>>] :
            m \in {SampleManifest} \cup {Change(SampleManifest, c) : c \in Changes}}

\* how json.load(open(path)) ends on bytes that are not UTF-8 text: the
\* locale's encoding decides whether the read raises UnicodeDecodeError or
\* the parse raises JSONDecodeError
DecodeEnds == {"UnicodeDecodeError", "JSONDecodeError"}

FileNotFoundMessage == <<"File not found: ", "path">>
InvalidJsonMessage == <<"Invalid JSON: ", "Expecting value: line 1 column 1 (char 0)">>

\* validate(manifest) on a JSON list: the "in" tests of the first step find
\* no field, manifest.get of the second step raises
ValidateList ==
    [errors |-> Missing(<<"Missing required field: ">>, REQUIRED_FIELDS, {}),
     warnings |-> <<>>, outcome |-> "AttributeError"]

\* validate_file(path) on file f from the lists errs and warns: the lists
\* it leaves and what it returns or raises
ValidateFile(f, decode, errs, warns) ==
    CASE f.kind = "missing" ->
           [errors |-> <<FileNotFoundMessage>>, warnings |-> warns, outcome |-> "False"]
      [] f.kind = "invalid_json" \/ (f.kind = "undecodable" /\ decode = "JSONDecodeError") ->
           [errors |-> <<InvalidJsonMessage>>, warnings |-> warns, outcome |-> "False"]
      [] f.kind = "undecodable" /\ decode # "JSONDecodeError" ->
           [errors |-> errs, warnings |-> warns, outcome |-> decode]
      [] f.kind = "list" -> ValidateList
      [] OTHER -> Validate(f.manifest[1])

\* validator.validate_file(path), path holding f
validate_file(f, decode) ==
    LET r == ValidateFile(f, decode, validator_errors, validator_warnings) IN
    /\ validator_errors' = r.errors
    /\ validator_warnings' = r.warnings
    /\ validate_call' = [op |-> "validate_file", file |-> f.kind,
                          manifest |-> f.manifest, outcome |-> r.outcome]

\* ManifestValidator()
ValidatorInit ==
    /\ MergerIdle
    /\ ResolverIdle
    /\ DownloaderIdle
    /\ BuilderIdle
    /\ HostIdle
    /\ MetadataIdle
    /\ validator_errors = <<>>
    /\ validator_warnings = <<>>
    /\ validate_call = NoValidation

ValidatorNext ==
    \/ \E m \in Manifests : validate(m) /\ UNCHANGED othersOfValidator
    \/ \E f \in ManifestFiles, decode \in DecodeEnds :
          validate_file(f, decode) /\ UNCHANGED othersOfValidator

ValidatorSpec == ValidatorInit /\ [][ValidatorNext]_vars

---------------------------------------------------------------------------
(* Claims about the validator (checked under ValidatorSpec).               *)

\* the manifest of the last validate call
Validated == validate_call.manifest[1]

\* the error is one of the two that validate_file sets itself
FileLevel(e) == e[1] \in {FileNotFoundMessage[1], InvalidJsonMessage[1]}

\* message e names field: the field's name is one of its parts
NamesField(e, field) == \E i \in DOMAIN e : e[i] = field

\* a manifest with all required top-level, OS, repository and RPM fields
\* and every value in range; schema version, repository names, RPM arches
\* and the number of RPMs are left free
InRange(m) ==
    /\ \A i \in DOMAIN REQUIRED_FIELDS : HasKey(m, REQUIRED_FIELDS[i])
    /\ m.os.kind = "dict"
    /\ Range(REQUIRED_OS_FIELDS) \subseteq m.os.keys
    /\ m.os.major.t = "int" /\ m.os.major.n \in {8, 9}
    /\ m.os.minor.t = "int"
    /\ m.arch.t = "str" /\ m.arch.s \in {"x86_64", "aarch64"}
    /\ m.enabled_repos.kind = "list"
    /\ \A i \in DOMAIN m.enabled_repos.items :
          LET repo == m.enabled_repos.items[i] IN
          repo.kind = "dict" /\ "id" \in repo.keys
    /\ m.installed_rpms.kind = "list"
    /\ \A i \in DOMAIN m.installed_rpms.items :
          LET rpm == m.installed_rpms.items[i] IN
          rpm.kind = "dict" /\ Range(REQUIRED_RPM_FIELDS) \subseteq rpm.keys
    /\ m.timestamp.t = "str" /\ m.timestamp.s \in WithT

\* C19: validate returns True with an empty error list for every manifest
\* that has all required fields with in-range values, also when soft
\* conditions apply (unknown schema version, empty installed_rpms, unusual
\* RPM arch, repo without name): those give warnings only; and validate
\* returns True iff errors is empty.
C19_InRangeIsValid ==
    validate_call.op = "validate" =>
        /\ InRange(Validated) =>
              validate_call.outcome = "True" /\ validator_errors = <<>>
        /\ validate_call.outcome = "True" => validator_errors = <<>>
        /\ validate_call.outcome = "False" => validator_errors # <<>>

\* an in-range manifest under two soft conditions was validated
C19_Witness ==
    /\ validate_call.op = "validate"
    /\ InRange(Validated)
    /\ Len(validator_warnings) >= 2
    /\ validate_call.outcome = "True"

\* C20: for every manifest missing any one of the required top-level
\* fields, validate returns False and errors has an entry naming that field.
C20_MissingFieldIsNamed ==
    validate_call.op = "validate" =>
        \A i \in DOMAIN REQUIRED_FIELDS :
            ~HasKey(Validated, REQUIRED_FIELDS[i]) =>
                /\ validate_call.outcome = "False"
                /\ \E j \in DOMAIN validator_errors :
                      NamesField(validator_errors[j], REQUIRED_FIELDS[i])

\* error message e starts with the text prefix
StartsWith(e, prefix) == Len(e) >= 1 /\ e[1] = prefix

\* "os" is an object that has "major", and the value is not one of the
\* numbers 8 and 9
MajorNot8Or9(m) ==
    /\ m.os.kind = "dict"
    /\ "major" \in m.os.keys
    /\ ~(m.os.major.t \in {"int", "float"} /\ m.os.major.n \in {8, 9})

\* C21: for every manifest whose os.major is not 8 or 9 (any other integer,
\* a non-integer value, or a present but null value), validate returns
\* False with an OS-major error.
C21_BadMajorIsError ==
    (validate_call.op = "validate" /\ MajorNot8Or9(Validated)) =>
        /\ validate_call.outcome = "False"
        /\ \E j \in DOMAIN validator_errors :
              StartsWith(validator_errors[j], "Invalid OS major version: ")

\* "arch" is present and its value is not x86_64 or aarch64
ArchOutside(m) ==
    /\ m.arch.t # "absent"
    /\ ~(m.arch.t = "str" /\ m.arch.s \in {"x86_64", "aarch64"})

\* C22: for every manifest whose system architecture field is present with
\* a value outside {x86_64, aarch64} (including the empty string or null),
\* validate returns False with an architecture error.
C22_BadArchIsError ==
    (validate_call.op = "validate" /\ ArchOutside(Validated)) =>
        /\ validate_call.outcome = "False"
        /\ \E j \in DOMAIN validator_errors :
              StartsWith(validator_errors[j], "Invalid system ")

\* C23: validate_file returns False with a file-level error (file not
\* found, or invalid serialization) whenever the file is missing or is not
\* valid JSON, the content checks are then not run, and content validation
\* never produces a file-level error.
C23_FileLevelErrors ==
    /\ (validate_call.op = "validate_file"
          /\ validate_call.file \in {"missing", "undecodable", "invalid_json"}) =>
            /\ validate_call.outcome = "False"
            /\ Len(validator_errors) = 1
            /\ FileLevel(validator_errors[1])
    /\ (validate_call.op = "validate" \/ validate_call.file \in {"object", "list"}) =>
            \A j \in DOMAIN validator_errors : ~FileLevel(validator_errors[j])

\* get_summary(): the lines it joins, each line as its parts
GetSummary(errs, warns) ==
    (IF errs # <<>>
       THEN << <<"ERRORS (", ToString(Len(errs)), "):">> >>
            \o [i \in DOMAIN errs |-> <<"  - ">> \o errs[i]]
       ELSE <<>>)
    \o (IF warns # <<>>
          THEN << <<"WARNINGS (", ToString(Len(warns)), "):">> >>
               \o [i \in DOMAIN warns |-> <<"  - ">> \o warns[i]]
          ELSE <<>>)
    \o (IF errs = <<>> /\ warns = <<>> THEN << <<"Manifest is valid.">> >> ELSE <<>>)

\* the last call was a validate_file that ended with a file-level error
FileLevelFailure ==
    /\ validate_call.op = "validate_file"
    /\ validate_call.outcome = "False"
    /\ validate_call.file \in {"missing", "undecodable", "invalid_json"}

\* C30: after any sequence of validate / validate_file calls on one
\* validator, errors and warnings describe only the most recent call: when
\* validate_file fails with a file-level error, warnings is empty and
\* get_summary() has no WARNINGS part; after a validation of a manifest the
\* two lists are the ones that manifest gives.
C30_OnlyLastCall ==
    /\ FileLevelFailure =>
          /\ validator_warnings = <<>>
          /\ \A i \in DOMAIN GetSummary(validator_errors, validator_warnings) :
                GetSummary(validator_errors, validator_warnings)[i][1] # "WARNINGS ("
    /\ (validate_call.manifest # <<>> /\ validate_call.outcome \in {"True", "False"}) =>
          /\ validator_errors = Validate(Validated).errors
          /\ validator_warnings = Validate(Validated).warnings

---------------------------------------------------------------------------
(* Concurrent builds: two BundleBuilder processes that share work_dir and  *)
(* output_dir.  Each runs build(); the steps of the two interleave.        *)

\* the two build invocations
Builds == {"first", "second"}

\* the last second the clock of the model shows
MaxSecond == 1

\* datetime.now(timezone.utc): a second and the half of it
Instants == [second : 0..MaxSecond, half : {"a", "b"}]

\* timestamp.strftime('%Y%m%dT%H%M%SZ'): the reading cut to the second
Strftime(timestamp) == ToString(timestamp.second)

\* an identifier without the OS target
BundleIdOfTimeOnly(os, timestamp) == <<"bundle-", Strftime(timestamp)>>

\* f"bundle-rhel{self.os_major}-{timestamp.strftime(...)}"
BundleId(os, timestamp) == <<"bundle-rhel", ToString(os), "-", Strftime(timestamp)>>

\* an entry of a shared directory: self.work_dir / name or
\* self.output_dir / name, the name being the bundle id and a suffix
PathIn(dir, bundle_id, suffix) == [dir |-> dir, name |-> bundle_id \o <<suffix>>]

\* bundle_work_dir = self.work_dir / self.bundle_id
BundleWorkDir(b) == PathIn("work_dir", builds[b].bundle_id, "")

\* the three names _create_archive uses in self.output_dir
TarPath(b) == PathIn("output_dir", builds[b].bundle_id, ".tar")
ZstPath(b) == PathIn("output_dir", builds[b].bundle_id, ".tar.zst")
GzPath(b) == PathIn("output_dir", builds[b].bundle_id, ".tar.gz")

\* builds with b at position p
At(b, p) == [builds EXCEPT ![b].at = p]

\* build b creates, writes or deletes the entries ps
Touch(b, ps) == touched' = touched \cup {<<b, p>> : p \in ps}

\* build(): the clock is read and the bundle id set
host_start(b, timestamp) ==
    /\ builds[b].at = "start"
    /\ builds' = [builds EXCEPT ![b].at = "mkdir",
                                ![b].timestamp = <<timestamp>>,
                                ![b].bundle_id = BundleId(builds[b].os_major, timestamp)]
    /\ UNCHANGED <<host_fs, touched>>

\* rpms_dir.mkdir(parents=True, exist_ok=True) and the manifests directory
host_mkdir(b) ==
    /\ builds[b].at = "mkdir"
    /\ host_fs' = host_fs \cup {BundleWorkDir(b)}
    /\ Touch(b, {BundleWorkDir(b)})
    /\ builds' = At(b, "steps")

\* steps 1 to 8 write below bundle_work_dir; any of them may raise
host_steps(b, ok) ==
    /\ builds[b].at = "steps"
    /\ Touch(b, {BundleWorkDir(b)})
    /\ builds' = At(b, IF ok THEN "tar" ELSE "cleanup")
    /\ UNCHANGED host_fs

\* _create_archive: tarfile.open(tar_path, "w") and tar.add
host_tar(b) ==
    /\ builds[b].at = "tar"
    /\ host_fs' = host_fs \cup {TarPath(b)}
    /\ Touch(b, {TarPath(b)})
    /\ builds' = At(b, "zstd")

\* _create_archive: zstd --rm tar_path -o archive_path, or the gzip
\* fallback when zstd is missing or fails
host_compress(b, zstd) ==
    /\ builds[b].at = "zstd"
    /\ IF zstd
         THEN /\ host_fs' = (host_fs \ {TarPath(b)}) \cup {ZstPath(b)}
              /\ Touch(b, {TarPath(b), ZstPath(b)})
         ELSE /\ host_fs' = host_fs \cup {GzPath(b)}
              /\ Touch(b, {GzPath(b)})
    /\ builds' = At(b, "cleanup")

\* finally: shutil.rmtree(bundle_work_dir) if it exists
host_cleanup(b) ==
    /\ builds[b].at = "cleanup"
    /\ IF BundleWorkDir(b) \in host_fs
         THEN /\ host_fs' = host_fs \ {BundleWorkDir(b)}
              /\ Touch(b, {BundleWorkDir(b)})
         ELSE UNCHANGED <<host_fs, touched>>
    /\ builds' = At(b, "done")

\* two BundleBuilder objects constructed for OS majors of their own
HostInit ==
    /\ MergerIdle
    /\ ResolverIdle
    /\ DownloaderIdle
    /\ BuilderIdle
    /\ ValidatorIdle
    /\ MetadataIdle
    /\ builds \in [Builds -> [os_major : VALID_OS_MAJORS, at : {"start"},
                             timestamp : {<<>>}, bundle_id : {<<>>}]]
    /\ host_fs = {}
    /\ touched = {}

HostNext ==
    \E b \in Builds :
        \/ \E timestamp \in Instants : host_start(b, timestamp) /\ UNCHANGED othersOfHost
        \/ host_mkdir(b) /\ UNCHANGED othersOfHost
        \/ \E ok \in BOOLEAN : host_steps(b, ok) /\ UNCHANGED othersOfHost
        \/ host_tar(b) /\ UNCHANGED othersOfHost
        \/ \E zstd \in BOOLEAN : host_compress(b, zstd) /\ UNCHANGED othersOfHost
        \/ host_cleanup(b) /\ UNCHANGED othersOfHost

HostSpec == HostInit /\ [][HostNext]_vars

---------------------------------------------------------------------------
(* Claims about concurrent builds (checked under HostSpec).                *)

\* both builds have touched one and the same entry
Share(b1, b2) == \E t1, t2 \in touched : t1[1] = b1 /\ t2[1] = b2 /\ t1[2] = t2[2]

\* the two builds are for one OS target and read the clock in one second
SameTargetAndSecond(b1, b2) ==
    /\ builds[b1].os_major = builds[b2].os_major
    /\ builds[b1].timestamp # <<>> /\ builds[b2].timestamp # <<>>
    /\ builds[b1].timestamp[1].second = builds[b2].timestamp[1].second

\* C24: two build invocations never share a working tree or an output
\* archive name unless they have the same OS target and start within the
\* same UTC second; builds for OS major 8 and 9 that share work_dir and
\* output_dir never create, overwrite or delete each other's working tree
\* or archive, in any interleaving.
C24_BuildsDisjoint ==
    \A b1, b2 \in Builds :
        (b1 # b2 /\ Share(b1, b2)) => SameTargetAndSecond(b1, b2)

\* builds for OS major 8 and 9 started in one second have both finished,
\* each with its archive in output_dir
C24_Witness ==
    /\ builds["first"].os_major = 8 /\ builds["second"].os_major = 9
    /\ builds["first"].at = "done" /\ builds["second"].at = "done"
    /\ builds["first"].timestamp = builds["second"].timestamp
    /\ ZstPath("first") \in host_fs /\ GzPath("second") \in host_fs
    /\ BundleWorkDir("first") \notin host_fs /\ BundleWorkDir("second") \notin host_fs

---------------------------------------------------------------------------
(* Step 3 of build(): resolver.resolve() and what build() does with what   *)
(* it returns, up to the decision whether to download.                     *)

\* build() after resolver.resolve() returned: the log lines of steps 3 and
\* 4, and download_packages is called only for a non-empty list
log_resolved ==
    /\ pc = "done"
    /\ bpc = "idle"
    /\ build_log' =
          <<Entry("Resolved packages", Len(resolved))>>
          \o [i \in DOMAIN errors |-> [Entry("Warning", 0) EXCEPT !.e = errors[i]]]
          \o (IF resolved = <<>>
                THEN <<Entry("No updates available - creating empty bundle", 0)>>
                ELSE <<>>)
          \o <<Entry("Step 4: Downloading RPMs", 0)>>
    /\ bpc' = IF resolved # <<>> THEN "step4" ELSE "step5"
    /\ ran' = {"resolver"}
    /\ UNCHANGED <<bundle_work_dir, output_dir, build_log_file, build_result>>

BuildResolveNext ==
    \/ ResolverNext
    \/ log_resolved /\ UNCHANGED othersOfBuilder

BuildResolveSpec == ResolverInit /\ [][BuildResolveNext]_vars

---------------------------------------------------------------------------
(* Claims about a failed update check (checked under BuildResolveSpec).    *)

\* the update check of this run was recorded as failed
CheckFailed == \E i \in DOMAIN errors : errors[i] = "dnf check-update failed"

\* C25: an update check that exits with a status other than 0 or 100 is
\* recorded in resolver.errors and treated as no updates found: resolve()
\* returns an empty list without raising, and the build goes on to an empty
\* bundle instead of aborting; the update set of a successful check is a
\* subset of the installed package names.
C25_FailedCheckIsNoUpdates ==
    /\ updates \subseteq installed_packages
    /\ \A rc \in {0, 100, 1} : \A reported \in SUBSET Pkgs :
          LET upd == GetAvailableUpdates(installed_packages, rc, reported) IN
          /\ upd \subseteq installed_packages
          /\ rc \notin {0, 100} => upd = {}
    /\ CheckFailed =>
          /\ pc = "done"
          /\ updates = {}
          /\ resolved = <<>>
          /\ queries = [NoQueries EXCEPT !.check_update = 1]
    /\ (CheckFailed /\ bpc # "idle") =>
          /\ bpc = "step5"
          /\ build_result = NoResult
          /\ \E i \in DOMAIN build_log :
                build_log[i].msg = "Warning" /\ build_log[i].e = "dnf check-update failed"
          /\ Logged(build_log, "No updates available - creating empty bundle")
          /\ ~Logged(build_log, "ERROR")

\* the update check of a resolver with installed packages failed, resolve()
\* returned, and build() went on to step 5 with the warning in its log
C25_Witness ==
    /\ CheckFailed
    /\ installed_packages # {}
    /\ pc = "done"
    /\ resolved = <<>>
    /\ bpc = "step5"
    /\ Logged(build_log, "Warning")

---------------------------------------------------------------------------
(* Claims about the choice of the closure strategy (checked under          *)
(* ResolverSpec).                                                          *)

\* a query of the breadth-first fallback has been made
FallbackQueried == \E n \in Names : queries.info[n] > 0 \/ queries.requires[n] > 0

\* C26: closure resolution tries the transcript-parsing strategy first and
\* runs the breadth-first fallback if and only if the primary strategy
\* produced zero packages; the results of the two are never mixed in one
\* run.
C26_FallbackIffPrimaryEmpty ==
    /\ [][pc = "closure" =>
            /\ queries'.download = queries.download + 1
            /\ ~FallbackQueried
            /\ (pc' = "bfs") <=> (all_packages' = <<>>)
            /\ (pc' = "bfs") <=> (strategy' = "repoquery")
            /\ (pc' = "classify") <=> (strategy' = "transcript")]_vars
    /\ [](FallbackQueried => (strategy = "repoquery" /\ queries.download = 1))
    /\ [](strategy = "transcript" =>
            (all_packages # <<>> /\ pc \in {"classify", "done"}))
    /\ [][strategy = "transcript" => all_packages' = all_packages]_vars
    /\ [](pc = "bfs" => strategy = "repoquery")

\* the primary strategy parsed nothing, the fallback ran and found
\* packages, and resolve() returned them
C26_Witness ==
    /\ pc = "done"
    /\ strategy = "repoquery"
    /\ queries.download = 1
    /\ FallbackQueried
    /\ resolved # <<>>

---------------------------------------------------------------------------
(* Claims about the matching of files (checked under DownloaderSpec).      *)

\* file f is a build of the package called name: its stem is
\* name-version-release.arch
IsFileOf(f, name) == HasNevraParts(f) /\ RsplitName(f) = name

\* C27: a package is reported as successfully downloaded only if a file of
\* that very package is in the destination directory: the matched file's
\* package-name part equals the package's name, a file of another package
\* whose name starts with "name-" never satisfies it, and two distinct
\* expected packages are never matched to the same file.
C27_MatchedFileIsOfPackage ==
    /\ \A i \in DOMAIN results :
          results[i].success =>
              /\ results[i].local_path[1] \in Range(download_dir)
              /\ IsFileOf(results[i].local_path[1], results[i].package.name)
    /\ \A i, j \in DOMAIN results :
          (results[i].success /\ results[j].success
             /\ results[i].package.name # results[j].package.name) =>
                results[i].local_path # results[j].local_path

---------------------------------------------------------------------------
(* Steps 4 and 7 of build(): the resolved packages are downloaded and the  *)
(* metadata is built from the resolved list and the downloader's results.  *)

\* the package types resolve() assigns
PackageTypes == {"update", "security", "dependency"}

\* resolved lists: packages of two names, of every type
ResolvedLists ==
    SeqsUpTo({ResolvedPackage(n, [name |-> n, arch |-> "x86_64"], t) :
                 n \in {<<"bash">>, <<"openssl">>}, t \in PackageTypes},
             MaxPackages)

\* len([p for p in resolved if p.package_type == t])
CountType(resolved_list, t) ==
    Len(SelectSeq(resolved_list, LAMBDA p : p.package_type = t))

\* downloader.get_successful_downloads()
GetSuccessfulDownloads(rs) == SelectSeq(rs, LAMBDA r : r.success)

\* the package_list of _build_metadata
PackageList(rs) ==
    [i \in DOMAIN GetSuccessfulDownloads(rs) |->
        [nevra  |-> GetSuccessfulDownloads(rs)[i].package.nevra,
         type   |-> GetSuccessfulDownloads(rs)[i].package.package_type,
         sha256 |-> GetSuccessfulDownloads(rs)[i].sha256]]

\* _build_metadata(timestamp, merger, resolved, downloader): the package
\* summary and the package list
BuildMetadata(resolved_list, rs) ==
    [packages |->
        [total_count      |-> Len(PackageList(rs)),
         update_count     |-> CountType(resolved_list, "update"),
         security_count   |-> CountType(resolved_list, "security"),
         dependency_count |-> CountType(resolved_list, "dependency")],
     package_list |-> PackageList(rs)]

\* step 7: self.metadata = self._build_metadata(...)
build_metadata ==
    /\ dl_call.op = "download_packages"
    /\ dl_call.outcome = "returned"
    /\ metadata = NoMetadata
    /\ metadata' = <<BuildMetadata(dl_call.packages, results)>>

MetadataNext ==
    \/ /\ FreshDownloader
       /\ \E packages \in ResolvedLists :
             \E fetch \in FetchOutcomes :
                \E dir \in DownloadListings :
                   download_packages(packages, fetch, dir)
                   /\ UNCHANGED othersOfDownloader
    \/ build_metadata /\ UNCHANGED <<downloaderVars, othersOfMetadata>>

MetadataSpec == DownloaderInit /\ [][MetadataNext]_vars

---------------------------------------------------------------------------
(* Claims about the metadata (checked under MetadataSpec).                 *)

\* C28: in the BundleMetadata of every build, packages.total_count equals
\* update_count + security_count + dependency_count and equals the length
\* of package_list, also when some resolved packages failed to download.
C28_CountsAddUp ==
    metadata # NoMetadata =>
        LET packages == metadata[1].packages IN
        /\ packages.total_count =
              packages.update_count + packages.security_count
              + packages.dependency_count
        /\ packages.total_count = Len(metadata[1].package_list)

---------------------------------------------------------------------------
(* Claims about the hashes of the host summary (checked under Spec).       *)

\* C29: after any sequence of accepted adds, every row of
\* get_host_summary() carries the content hash of that row's own manifest,
\* also when several accepted manifests share one host_id or a manifest has
\* no host_id: a later add never changes the hash reported for an earlier
\* row.
C29_RowHasOwnHash ==
    \A i \in DOMAIN manifests :
        get_host_summary(manifests, manifest_hashes)[i].manifest_hash
            = ManifestHash(manifests[i])

=============================================================================
